---- MODULE Spec2Model ----
(***************************************************************************)
(* A model of athenacli's background completion refresher                  *)
(* (athenacli/completion_refresher.py) and of its SQL execution pipeline   *)
(* (athenacli/sqlexecute.py).                                              *)
(*                                                                         *)
(* Spec    : the CompletionRefresher: the interactive thread calling       *)
(*           refresh(), interleaved with the steps of the worker threads   *)
(*           running _bg_refresh.                                          *)
(* SpecLive: Spec with the fairness of the thread scheduler.               *)
(* SpecRun : SQLExecute.run on one raw input text.                         *)
(* SpecBackend : one Backend (athenacli/backends) under the calls of a     *)
(*           session: connect, close, get_cursor, the discovery queries    *)
(*           and run().                                                    *)
(***************************************************************************)
EXTENDS Integers, Sequences, FiniteSets, TLC

VARIABLES
    backendKind,        \* "athena" | "redshift": the class of executor.backend
    completer_thread,   \* CompletionRefresher._completer_thread: 0 is None
    restart_refresh,    \* CompletionRefresher._restart_refresh (threading.Event)
    workers,            \* the threads started by refresh(), by worker id
    ipc,                \* where the interactive thread is inside refresh(), and
                        \* whether a worker was alive when it entered
    acks,               \* what every refresh() call returned, in call order
    text,               \* run(): the raw statement text
    rpc,                \* run(): position of the generator
    components,         \* run(): sqlparse.split(statement)
    pos,                \* run(): index of the next component
    results,            \* run(): the tuples yielded so far
    conn,               \* backend.conn: the id of a driver connection, 0 is None
    effects,            \* run(): cursors acquired, dispatches, executions, flag
    database,           \* backend.database: the active database name
    catalog_name,       \* AthenaBackend.catalog_name
    sockets,            \* the connections the driver made for the Backend, by id
    last,               \* the last call made on the Backend and what it did
    executor_database,  \* SQLExecute.database
    session,            \* a refresh task and a statement on one Backend: where
                        \* each is and the cursor each holds
    app                 \* a function of the program applied on its own: which,
                        \* to what, and what it returned

refresherVars == <<backendKind, completer_thread, restart_refresh, workers, ipc, acks>>
runVars == <<text, rpc, components, pos, results, conn, effects>>
pipelineVars == <<text, rpc, components, pos, results, effects>>
backendVars == <<database, catalog_name, sockets, last, executor_database, session>>
functionVars == <<app>>
vars == <<backendKind, completer_thread, restart_refresh, workers, ipc, acks,
          text, rpc, components, pos, results, conn, effects,
          database, catalog_name, sockets, last, executor_database, session, app>>

(***************************************************************************)
(* Bounds of the model.                                                    *)
(***************************************************************************)
\* refresh() calls the interactive thread issues
MaxCalls == 3
\* connections the driver makes for one Backend, the constructor's included
MaxConnections == 3
\* callbacks in the list handed to one refresh() call
MaxCallbacks == 2

WorkerIds == 1..MaxCalls
ConnIds == 1..MaxConnections

\* no refresh task and no statement under way; stale: the worker has read
\* from a cursor whose connection was closed; yielded: a statement has
\* yielded its result
NoSession ==
    [worker |-> [pc |-> "none", task |-> 0, cur |-> 0, left |-> 0, stale |-> FALSE],
     run |-> [pc |-> "none", cur |-> 0, yielded |-> FALSE]]

\* no function applied on its own
NoApp == [fn |-> "none", args |-> <<>>, out |-> <<>>, done |-> FALSE]

\* a connection id the driver has not used yet
NoSocket == [state |-> "unused", schema |-> <<>>, catalog |-> <<>>, autocommit |-> FALSE]

\* no call made on the Backend yet
NoCall ==
    [op |-> "none", arg |-> <<>>, outcome |-> "none", events |-> <<>>, rows |-> <<>>,
     result |-> <<>>, before |-> [conn |-> 0, database |-> <<>>, sockets |-> <<>>],
     again |-> FALSE]

(***************************************************************************)
(* The refresh task registry and the data the tasks discover.              *)
(***************************************************************************)
Refreshers == <<"databases", "schemata", "tables", "special_commands">>
NumTasks == Len(Refreshers)

\* names the backend's discovery queries may return
Dbs == {"db1"}
Rels == {"t1"}
ColRels == {"t1", "t2"}
Cols == {"c1"}
\* SQLExecute.database, read by refresh_schemata
ActiveDatabase == "db1"

\* AthenaCompleter(**completer_options): the fresh completion index
NewCompleter ==
    [databases |-> {}, schemata |-> {}, dbname |-> "None",
     rels |-> {}, cols |-> {}, special |-> FALSE, all |-> {}]

\* What one backend discovery call does: raise, or return rows.
Failure == [ok |-> FALSE, rows |-> {}]
Outcomes(S) == {Failure} \cup {[ok |-> TRUE, rows |-> r] : r \in SUBSET S}

\* the discovery results one run of the i-th task may meet; a task is handed
\* only the results of the queries it issues (the schemata and the
\* special_commands tasks issue none and do not fail)
TaskInputs(i) ==
    CASE Refreshers[i] = "databases" ->
           {[dbs |-> d, tbls |-> Failure, cls |-> Failure] : d \in Outcomes(Dbs)}
      [] Refreshers[i] = "tables" ->
           {[dbs |-> Failure, tbls |-> t, cls |-> c] :
              t \in Outcomes(Rels), c \in Outcomes(ColRels \X Cols)}
      [] OTHER -> {[dbs |-> Failure, tbls |-> Failure, cls |-> Failure]}

\* the entries of an index: database names, schemata, relations, columns of
\* relations, and the identifiers of the flat completion set
Entries(c) ==
    {<<"database", d, "">> : d \in c.databases}
      \cup {<<"schema", d, "">> : d \in c.schemata}
      \cup {<<"relation", r, "">> : r \in c.rels}
      \cup {<<"column", p[1], p[2]>> : p \in c.cols}
      \cup {<<"identifier", x, "">> : x \in c.all}

\* what a task hands back to _bg_refresh: the index, or an exception
Returned(c) == [raised |-> FALSE, cause |-> "none", completer |-> c]
Raised(cause) == [raised |-> TRUE, cause |-> cause, completer |-> NewCompleter]

\* @refresher('databases')
refresh_databases(completer, dbs) ==
    IF ~dbs.ok THEN Raised("databases")
    ELSE Returned([completer EXCEPT !.databases = @ \cup dbs.rows])

\* @refresher('schemata')
refresh_schemata(completer) ==
    Returned([completer EXCEPT !.schemata = @ \cup {ActiveDatabase},
                               !.all = @ \cup {ActiveDatabase},
                               !.dbname = ActiveDatabase])

\* refresh_tables, isinstance(executor.backend, RedshiftBackend)
refresh_tables_redshift(completer, tbls, cls) ==
    IF ~tbls.ok THEN Raised("tables")
    ELSE
      LET known == completer.dbname \in completer.schemata
          \* metadata[completer.dbname][relname] = ['*'], KeyError passed over
          rels1 == IF known THEN completer.rels \cup tbls.rows ELSE completer.rels
          cols1 == IF known THEN {p \in completer.cols : p[1] \notin tbls.rows}
                   ELSE completer.cols
          all1 == completer.all \cup tbls.rows
          \* try: list(executor.table_columns()) except Exception: []
          column_data == IF cls.ok THEN cls.rows ELSE {}
      IN  IF \E p \in column_data : ~known \/ p[1] \notin rels1
          THEN Raised("columns")   \* metadata[...][relname].append: KeyError
          ELSE Returned([completer EXCEPT
                           !.rels = rels1,
                           !.cols = cols1 \cup column_data,
                           !.all = all1 \cup {p[2] : p \in column_data}])

\* refresh_tables, the default branch (Athena and other backends):
\* extend_relations and extend_columns add to the index; an exception of the
\* lazy tables() or table_columns() sequence passes through them
refresh_tables_default(completer, tbls, cls) ==
    IF ~tbls.ok THEN Raised("tables")
    ELSE IF ~cls.ok THEN Raised("columns")
    ELSE Returned([completer EXCEPT
                     !.rels = @ \cup tbls.rows,
                     !.cols = @ \cup cls.rows,
                     !.all = @ \cup tbls.rows \cup {p[2] : p \in cls.rows}])

\* @refresher('tables')
refresh_tables(kind, completer, tbls, cls) ==
    IF kind = "redshift" THEN refresh_tables_redshift(completer, tbls, cls)
    ELSE refresh_tables_default(completer, tbls, cls)

\* @refresher('special_commands')
refresh_special(completer) ==
    Returned([completer EXCEPT !.special = TRUE])

\* refresher(completer, executor) for the i-th entry of the registry
RunRefresher(i, kind, completer, dbs, tbls, cls) ==
    CASE Refreshers[i] = "databases" -> refresh_databases(completer, dbs)
      [] Refreshers[i] = "schemata" -> refresh_schemata(completer)
      [] Refreshers[i] = "tables" -> refresh_tables(kind, completer, tbls, cls)
      [] Refreshers[i] = "special_commands" -> refresh_special(completer)

(***************************************************************************)
(* refresh() arguments.                                                    *)
(***************************************************************************)
\* the callbacks argument of the c-th refresh() call: one callable, or a list
\* of callables; <<c, k>> is the k-th callable handed to call c
NoCallback == <<0, 0>>
CallbackArgs(c) ==
    {[callable |-> TRUE, fn |-> <<c, 1>>, fns |-> <<>>]}
      \cup {[callable |-> FALSE, fn |-> NoCallback, fns |-> [k \in 1..n |-> <<c, k>>]] :
               n \in 1..MaxCallbacks}

\* if callable(callbacks): callbacks = [callbacks]
CallbackList(cbs) == IF cbs.callable THEN <<cbs.fn>> ELSE cbs.fns

(***************************************************************************)
(* Threads.                                                                *)
(***************************************************************************)
NoWorker ==
    [pc |-> "none", call |-> 0, args |-> [callable |-> FALSE, fn |-> NoCallback, fns |-> <<>>],
     callbacks |-> <<>>, task |-> 0, cb |-> 0, completer |-> NewCompleter,
     pass |-> <<>>, invoked |-> <<>>, exit |-> "none", cause |-> "none",
     delivery |-> "none", owed |-> FALSE, restarts |-> 0, ever |-> {}]

\* is_alive() still true of a thread whose target has returned or raised
IsAlive_once_started(w) == workers[w].pc # "none"

\* Thread.is_alive(): from start() until the target returns or raises
IsAlive(w) == workers[w].pc \notin {"none", "dead"}

Alive == {w \in WorkerIds : IsAlive(w)}
StartedIn(ws) == {w \in WorkerIds : ws[w].pc # "none"}
Started == StartedIn(workers)

\* the acknowledgements refresh() returns
AckRestarted == "Auto-completion refresh restarted."
AckStarted == "Auto-completion refresh started in the background."

\* the interactive thread is outside refresh()
Idle == [at |-> "idle", alive |-> FALSE]

\* is_refreshing without the thread handle ever being kept
is_refreshing_forgets_thread == FALSE

\* is_refreshing without the is_alive() test
is_refreshing_without_is_alive == completer_thread # 0

\* CompletionRefresher.is_refreshing
is_refreshing == completer_thread # 0 /\ IsAlive(completer_thread)

\* what the callbacks of a worker have received: "all" when every callback of
\* its list was invoked exactly once, in order, with the worker's own index
\* and after a pass that ran every task without a restart
Delivery(callbacks, invoked) ==
    IF invoked = <<>> THEN "none"
    ELSE IF /\ Len(invoked) = Len(callbacks)
            /\ \A k \in 1..Len(invoked) :
                  invoked[k].fn = callbacks[k] /\ invoked[k].own /\ invoked[k].finished
         THEN "all"
         ELSE "partial"

\* the thread is finished: its frame (completer, callbacks) is gone; what is
\* kept of it is how it ended and what it delivered
Dead(wk, how, why) ==
    [NoWorker EXCEPT !.pc = "dead", !.call = wk.call, !.exit = how, !.cause = why,
                     !.delivery = Delivery(wk.callbacks, wk.invoked),
                     !.owed = (how = "done" /\ wk.owed)]

Init ==
    /\ backendKind \in {"athena", "redshift"}
    /\ completer_thread = 0
    /\ restart_refresh = FALSE
    /\ workers = [w \in WorkerIds |-> NoWorker]
    /\ ipc = Idle
    /\ acks = <<>>
    /\ text = <<>>
    /\ rpc = "off"
    /\ components = <<>>
    /\ pos = 0
    /\ results = <<>>
    /\ conn = 0
    /\ database = <<"d1">>
    /\ executor_database = <<"d1">>
    /\ session = NoSession
    /\ catalog_name = <<"AwsDataCatalog">>
    /\ sockets = [c \in ConnIds |-> NoSocket]
    /\ last = NoCall
    /\ app = NoApp
    /\ effects = [cursors |-> 0, dispatched |-> <<>>, executed |-> <<>>, expanded |-> 0,
                  described |-> <<>>, calls |-> <<>>, error |-> "none"]

(***************************************************************************)
(* CompletionRefresher.refresh, on the interactive thread.                 *)
(***************************************************************************)
\* refresh() is entered and evaluates self.is_refreshing()
RefreshCall ==
    /\ ipc = Idle
    /\ Len(acks) < MaxCalls
    /\ ipc' = [at |-> IF is_refreshing THEN "set" ELSE "spawn", alive |-> Alive # {}]
    /\ UNCHANGED <<backendKind, completer_thread, restart_refresh, workers, acks>>
    /\ UNCHANGED runVars
    /\ UNCHANGED functionVars
    /\ UNCHANGED backendVars

\* the running thread taking over the arguments of the call that found it
Coalesced_adopting(wk, cbs) ==
    IF wk.pc \in {"none", "dead"} THEN wk
    ELSE [wk EXCEPT !.args = cbs, !.callbacks = CallbackList(cbs)]

\* what the branch taken when is_refreshing() was true does with executor,
\* callbacks and completer_options: nothing, the thread's frame stays as it is
Coalesced(wk, cbs) == wk

\* the branch taken when is_refreshing() was true
RefreshRestart ==
    /\ ipc.at = "set"
    /\ restart_refresh' = TRUE
    /\ \E cbs \in CallbackArgs(Len(acks) + 1) :
         workers' = [w \in WorkerIds |->
                     IF w = completer_thread
                        /\ (workers[w].pc = "callbacks"
                            \/ (workers[w].pc = "isset" /\ workers[w].task = NumTasks))
                     THEN [Coalesced(workers[w], cbs) EXCEPT !.owed = TRUE]
                     ELSE Coalesced(workers[w], cbs)]
    /\ acks' = Append(acks, [msg |-> AckRestarted,
                             refreshing |-> ipc.alive,
                             spawned |-> Cardinality(StartedIn(workers')) - Cardinality(Started),
                             flag |-> restart_refresh',
                             thread |-> completer_thread])
    /\ ipc' = Idle
    /\ UNCHANGED <<backendKind, completer_thread>>
    /\ UNCHANGED runVars
    /\ UNCHANGED functionVars
    /\ UNCHANGED backendVars

\* the branch taken when is_refreshing() was false: Thread(...).start()
RefreshStart ==
    /\ ipc.at = "spawn"
    /\ \E cbs \in CallbackArgs(Len(acks) + 1) :
       LET w == Cardinality(Started) + 1
       IN  /\ w \in WorkerIds
           /\ workers' = [workers EXCEPT ![w] =
                            [NoWorker EXCEPT !.pc = "init", !.call = Len(acks) + 1,
                                             !.args = cbs, !.exit = "running"]]
           /\ completer_thread' = w
           /\ acks' = Append(acks, [msg |-> AckStarted,
                                    refreshing |-> ipc.alive,
                                    spawned |-> Cardinality(StartedIn(workers')) - Cardinality(Started),
                                    flag |-> restart_refresh,
                                    thread |-> w])
    /\ ipc' = Idle
    /\ UNCHANGED <<backendKind, restart_refresh>>
    /\ UNCHANGED runVars
    /\ UNCHANGED functionVars
    /\ UNCHANGED backendVars

(***************************************************************************)
(* CompletionRefresher._bg_refresh, on a worker thread.                    *)
(***************************************************************************)
\* completer = AthenaCompleter(...); callbacks pushed into a list
WorkerBegin(w) ==
    /\ workers[w].pc = "init"
    /\ workers' = [workers EXCEPT ![w] =
                     [@ EXCEPT !.pc = "task", !.task = 1,
                               !.completer = NewCompleter,
                               !.callbacks = CallbackList(workers[w].args)]]
    /\ UNCHANGED <<backendKind, completer_thread, restart_refresh, ipc, acks>>
    /\ UNCHANGED runVars
    /\ UNCHANGED functionVars
    /\ UNCHANGED backendVars

\* refresher(completer, executor): one task of the pass, to its end
RunTask(w) ==
    /\ workers[w].pc = "task"
    /\ \E in \in TaskInputs(workers[w].task) :
         LET r == RunRefresher(workers[w].task, backendKind, workers[w].completer,
                               in.dbs, in.tbls, in.cls)
         IN  workers' = [workers EXCEPT ![w] =
                           IF r.raised THEN Dead(workers[w], "task_error", r.cause)
                           ELSE [@ EXCEPT !.pc = "isset",
                                          !.completer = r.completer,
                                          !.ever = @ \cup Entries(r.completer),
                                          !.pass = Append(@, workers[w].task)]]
    /\ UNCHANGED <<backendKind, completer_thread, restart_refresh, ipc, acks>>
    /\ UNCHANGED runVars
    /\ UNCHANGED functionVars
    /\ UNCHANGED backendVars

\* the for loop stepping over a registered task
NextTask_skipping(t) == IF t = 1 THEN 3 ELSE t + 1

\* for refresher in self.refreshers.values(): the task after task t
NextTask(t) == t + 1

\* the for loop ending one task early
MoreTasks_but_last(t) == t < NumTasks - 1

\* the for loop has a task left after task t; if not, its else clause runs
MoreTasks(t) == t < NumTasks

\* if self._restart_refresh.is_set(): ... else the next task, or the for's else
WorkerIsSet(w) ==
    /\ workers[w].pc = "isset"
    /\ workers' = [workers EXCEPT ![w] =
                     IF restart_refresh THEN [@ EXCEPT !.pc = "clear"]
                     ELSE IF MoreTasks(workers[w].task)
                          THEN [@ EXCEPT !.pc = "task", !.task = NextTask(workers[w].task)]
                          ELSE [@ EXCEPT !.pc = "callbacks", !.task = 0, !.cb = 1]]
    /\ UNCHANGED <<backendKind, completer_thread, restart_refresh, ipc, acks>>
    /\ UNCHANGED runVars
    /\ UNCHANGED functionVars
    /\ UNCHANGED backendVars

\* the flag left set by the worker that saw it
FlagAfterClear_kept == TRUE

\* self._restart_refresh.clear()
FlagAfterClear == FALSE

\* self._restart_refresh.clear(); break; continue: the pass starts over
WorkerClear(w) ==
    /\ workers[w].pc = "clear"
    /\ restart_refresh' = FlagAfterClear
    /\ workers' = [workers EXCEPT ![w] =
                     [@ EXCEPT !.pc = "task", !.task = 1, !.pass = <<>>, !.owed = FALSE,
                               !.restarts = @ + 1]]
    /\ UNCHANGED <<backendKind, completer_thread, ipc, acks>>
    /\ UNCHANGED runVars
    /\ UNCHANGED functionVars
    /\ UNCHANGED backendVars

\* the argument of callback(completer)
CallbackArg(w) == workers[w].completer

\* callback(completer): the callback returns, or raises
RunCallback(w) ==
    /\ workers[w].pc = "callbacks"
    /\ workers[w].cb <= Len(workers[w].callbacks)
    /\ \E raises \in BOOLEAN :
         LET call == [fn |-> workers[w].callbacks[workers[w].cb],
                      finished |-> workers[w].pass = [i \in 1..NumTasks |-> i],
                      own |-> CallbackArg(w) = workers[w].completer,
                      full |-> CallbackArg(w).special,
                      index |-> CallbackArg(w),
                      kept |-> workers[w].ever \subseteq Entries(CallbackArg(w))]
             after == [workers[w] EXCEPT !.invoked = Append(@, call), !.cb = @ + 1]
         IN  workers' = [workers EXCEPT ![w] =
                           IF raises
                           THEN Dead(after, "callback_error", "callback")
                           ELSE after]
    /\ UNCHANGED <<backendKind, completer_thread, restart_refresh, ipc, acks>>
    /\ UNCHANGED runVars
    /\ UNCHANGED functionVars
    /\ UNCHANGED backendVars

\* _bg_refresh returns: the thread is no longer alive
WorkerExit(w) ==
    /\ workers[w].pc = "callbacks"
    /\ workers[w].cb > Len(workers[w].callbacks)
    /\ workers' = [workers EXCEPT ![w] = Dead(workers[w], "done", "none")]
    /\ UNCHANGED <<backendKind, completer_thread, restart_refresh, ipc, acks>>
    /\ UNCHANGED runVars
    /\ UNCHANGED functionVars
    /\ UNCHANGED backendVars

WorkerStep ==
    \E w \in WorkerIds :
        \/ WorkerBegin(w)
        \/ RunTask(w)
        \/ WorkerIsSet(w)
        \/ WorkerClear(w)
        \/ RunCallback(w)
        \/ WorkerExit(w)

Next ==
    \/ RefreshCall
    \/ RefreshRestart
    \/ RefreshStart
    \/ \E w \in WorkerIds : WorkerBegin(w)
    \/ \E w \in WorkerIds : RunTask(w)
    \/ \E w \in WorkerIds : WorkerIsSet(w)
    \/ \E w \in WorkerIds : WorkerClear(w)
    \/ \E w \in WorkerIds : RunCallback(w)
    \/ \E w \in WorkerIds : WorkerExit(w)

Spec == Init /\ [][Next]_vars

\* The scheduler lets a started thread run, and a refresh() call that was
\* entered returns; nothing obliges the user to call refresh() again.
SpecLive ==
    /\ Spec
    /\ WF_vars(WorkerStep)
    /\ WF_vars(RefreshRestart \/ RefreshStart)

(***************************************************************************)
(* Properties of the completion refresher.                                 *)
(***************************************************************************)
Settled(w) == workers[w].pc = "dead"

\* C1: whatever refresh() calls the interactive thread issues and however the
\* worker's steps interleave with them, at most one worker thread is alive.
C1_AtMostOneWorkerAlive == Cardinality(Alive) <= 1

\* a refresh() call was coalesced into a live worker, after an earlier worker
\* had already come and gone
C1_Witness ==
    /\ Cardinality(Alive) = 1
    /\ \E w \in WorkerIds : Settled(w)
    /\ Len(acks) = MaxCalls
    /\ acks[Len(acks)].refreshing

\* C2: a refresh() entered while a worker is alive sets the pending-restart
\* flag, starts no thread and returns the "restarted" message; entered while
\* none is alive it starts exactly one thread and returns the "started"
\* message; and once entered it can always return, whatever the worker does.
C2_RefreshAcknowledges ==
    /\ \A i \in 1..Len(acks) :
          IF acks[i].refreshing
          THEN acks[i].msg = AckRestarted /\ acks[i].spawned = 0 /\ acks[i].flag
          ELSE acks[i].msg = AckStarted /\ acks[i].spawned = 1
    /\ ipc.at # "idle" => ENABLED (RefreshRestart \/ RefreshStart)
    /\ \A w \in WorkerIds : workers[w].pc = "init" => workers[w].pass = <<>>

\* both acknowledgements have been returned, the second kind with the worker
\* in the middle of a task
C2_Witness ==
    /\ \E i, j \in 1..Len(acks) : acks[i].refreshing /\ ~acks[j].refreshing
    /\ acks[Len(acks)].msg = AckRestarted
    /\ \E w \in WorkerIds : workers[w].pc = "task" /\ workers[w].task > 1

\* C3: refresh() twice in a row with the first call's worker still running:
\* the second call is acknowledged "restarted" and starts no second worker,
\* and once the worker is finished every callback has been invoked once.
C3_TwoCallsOneDelivery ==
    (Len(acks) >= 2 /\ ~acks[1].refreshing /\ acks[2].refreshing) =>
        /\ acks[2].msg = AckRestarted
        /\ acks[2].thread = acks[1].thread
        /\ acks[2].spawned = 0
        /\ Settled(acks[1].thread) => workers[acks[1].thread].delivery = "all"

\* C4: a restart requested after the final task of a pass has finished, the
\* worker being alive (its last flag check possibly behind it), is followed
\* by another full pass before the worker ends.
C4_LateRestartHonoured ==
    \A w \in WorkerIds :
        (Settled(w) /\ workers[w].exit = "done") => ~workers[w].owed

\* C5: once the worker's loop has exited, every callback of the call that
\* started the worker is invoked exactly once with the worker's index, and
\* none before a pass that ran every task with no restart observed.
C5_EveryCallbackOnce ==
    \A w \in WorkerIds :
        /\ (Settled(w) /\ workers[w].exit \in {"done", "callback_error"})
              => workers[w].delivery = "all"
        /\ \A k \in 1..Len(workers[w].invoked) :
              workers[w].invoked[k].finished /\ workers[w].invoked[k].own

\* C6: every worker that is started eventually delivers its index to all its
\* callbacks and ends (refresh() calls stop: there are at most MaxCalls).
C6_EventuallyDelivered ==
    \A w \in WorkerIds :
        (workers[w].pc = "init") ~> (Settled(w) /\ workers[w].delivery = "all")

\* What does hold of delivery: a worker that ended with nothing having raised
\* has invoked every callback exactly once, and under the scheduler's
\* fairness every worker in which nothing raises ends that way.
NothingRaised ==
    \A w \in WorkerIds : workers[w].exit \notin {"task_error", "callback_error"}

DeliveredUnlessRaised ==
    \A w \in WorkerIds :
        (Settled(w) /\ workers[w].exit = "done") => workers[w].delivery = "all"

ConvergesUnlessRaised == ([]NothingRaised) => C6_EventuallyDelivered

\* C7: a task that raises does not end the refresh cycle.
C7_TaskFailureNonFatal ==
    \A w \in WorkerIds : workers[w].exit # "task_error"

\* C8: in the tables task a failing column discovery, or a column of a
\* relation the task did not record, does not abort the worker.
C8_ColumnDiscoveryBestEffort ==
    \A w \in WorkerIds :
        ~(workers[w].exit = "task_error" /\ workers[w].cause = "columns")

\* the worker is inside its loop of passes
InPass(w) == workers[w].pc \in {"task", "isset", "clear"}

\* the names of the tasks the worker has run in its current pass
PassNames(w) == [k \in 1..Len(workers[w].pass) |-> Refreshers[workers[w].pass[k]]]

\* s is a prefix of t
IsPrefix(s, t) == Len(s) <= Len(t) /\ \A k \in 1..Len(s) : s[k] = t[k]

\* C23: every pass starts at the first task and runs databases, schemata,
\* tables, special_commands in that order: the tasks run so far in a pass are
\* a prefix of that list, the task about to start is the one after the last
\* finished, and a pass that reaches the callbacks ran all four.
C23_TasksInRegistrationOrder ==
    \A w \in WorkerIds :
        /\ IsPrefix(PassNames(w), <<"databases", "schemata", "tables", "special_commands">>)
        /\ workers[w].pc = "task" => workers[w].task = Len(workers[w].pass) + 1
        /\ workers[w].pc \in {"isset", "clear"} =>
              workers[w].pass # <<>> /\ workers[w].task = Len(workers[w].pass)
        /\ (workers[w].pc = "callbacks" \/ workers[w].invoked # <<>>) =>
              PassNames(w) = <<"databases", "schemata", "tables", "special_commands">>

\* a worker that was restarted has run a whole pass, in order
C23_Witness ==
    \E w \in WorkerIds :
        /\ workers[w].pc = "callbacks"
        /\ workers[w].restarts > 0
        /\ PassNames(w) = <<"databases", "schemata", "tables", "special_commands">>

\* where a worker is and what it has built
Progress(wk) == <<wk.pc, wk.task, wk.pass, wk.completer, wk.restarts>>

\* the refresh() calls acknowledged "restarted" so far
RestartRequests == {i \in 1..Len(acks) : acks[i].msg = AckRestarted}

\* C24: the flag is read only after a task has finished; setting it leaves
\* the worker where it is; a worker that reads it set clears it and starts
\* over from the first task, one that reads it clear goes on; and each start
\* over consumes the flag, so the calls that set it since it was last cleared,
\* however many, cause one restart.
C24_RestartOnlyAfterTask ==
    /\ [](\A w \in WorkerIds :
            /\ workers[w].pc = "clear" =>
                  /\ restart_refresh
                  /\ workers[w].pass # <<>>
                  /\ workers[w].task = Len(workers[w].pass)
            /\ workers[w].restarts <= Cardinality(RestartRequests))
    /\ [][/\ (~restart_refresh /\ restart_refresh') =>
                \A w \in WorkerIds : Progress(workers'[w]) = Progress(workers[w])
          /\ \A w \in WorkerIds :
                /\ (workers[w].pc = "isset" /\ workers'[w].pc # "isset") =>
                      (workers'[w].pc = "clear" <=> restart_refresh)
                /\ (workers[w].pc = "clear" /\ workers'[w].pc # "clear") =>
                      /\ restart_refresh /\ ~restart_refresh'
                      /\ workers'[w].pc = "task"
                      /\ workers'[w].task = 1
                      /\ workers'[w].pass = <<>>
                      /\ workers'[w].restarts = workers[w].restarts + 1
                /\ (workers'[w].restarts > workers[w].restarts) =>
                      workers[w].pc = "clear"
          /\ (restart_refresh /\ ~restart_refresh') =>
                \E w \in WorkerIds : workers[w].pc = "clear" /\ workers'[w].pc = "task"]_vars

\* two refresh() calls were coalesced into the worker, which started over
\* once and then ran a whole pass
C24_Witness ==
    \E w \in WorkerIds :
        /\ workers[w].pc = "callbacks"
        /\ workers[w].restarts = 1
        /\ Cardinality({i \in RestartRequests : acks[i].thread = w}) = 2
        /\ ~restart_refresh

\* C25: one index for the worker's lifetime, and nothing that a pass added
\* to it is missing from the index the callbacks receive.
C25_IndexRetained ==
    \A w \in WorkerIds :
        /\ workers[w].pc = "callbacks" =>
              workers[w].ever \subseteq Entries(CallbackArg(w))
        /\ \A k \in 1..Len(workers[w].invoked) :
              workers[w].invoked[k].own /\ workers[w].invoked[k].kept

\* What does hold of retention: with the default strategy of the tables
\* task nothing is lost, and with either strategy the database names, the
\* schemata, the relations and the identifiers are kept; only the columns of
\* a relation that a later pass records again can go.
RetainedButForColumns ==
    \A w \in WorkerIds :
        IsAlive(w) =>
            \A e \in workers[w].ever \ Entries(workers[w].completer) :
                backendKind = "redshift" /\ e[1] = "column"

\* the index has been handed to a callback
Exposed(w) == workers[w].invoked # <<>>

\* C30 as stated: a state is reached in which the index has been handed to a
\* reader while the worker is still inside a pass.
C30_ExposedWhileBuilding == <>(\E w \in WorkerIds : Exposed(w) /\ InPass(w))

\* C30, as the code has it: the index is the worker's own until its last pass
\* is over; a callback receives it only after a pass that ran every task, the
\* worker is never inside a pass once a callback has it, and the index the
\* callback received is the index as the worker left it.
C30_IndexPrivateUntilDelivered ==
    \A w \in WorkerIds :
        Exposed(w) =>
            /\ ~InPass(w)
            /\ \A k \in 1..Len(workers[w].invoked) :
                  /\ workers[w].invoked[k].finished
                  /\ workers[w].invoked[k].index = workers[w].completer

\* a restarted worker has handed its index to the first of two callbacks
\* and is about to call the second
C30_Witness ==
    \E w \in WorkerIds :
        /\ workers[w].pc = "callbacks"
        /\ Len(workers[w].invoked) = 1
        /\ workers[w].cb = 2 /\ Len(workers[w].callbacks) = 2
        /\ workers[w].restarts > 0
        /\ workers[w].completer # NewCompleter

(***************************************************************************)
(* SQLExecute.run: the text it is given.                                   *)
(***************************************************************************)
\* longest raw input text
MaxText == 4
\* most results one meta-command hands back
MaxSpecialResults == 2
\* most rows a statement returns
MaxRows == 2

\* The characters of a text: a letter of SQL, the name of a registered
\* meta-command, the statement separator, white space, and the two-character
\* expanded-output marker backslash-G taken as one symbol.
Chars == {"a", "m", ";", " ", "\\G"}
Texts == UNION {[1..n -> Chars] : n \in 0..MaxText}

IsSpace(c) == c = " "
Blank(s) == \A k \in 1..Len(s) : IsSpace(s[k])

RECURSIVE LStrip(_)
LStrip(s) == IF s # <<>> /\ IsSpace(Head(s)) THEN LStrip(Tail(s)) ELSE s

RECURSIVE RStrip(_)
RStrip(s) ==
    IF s # <<>> /\ IsSpace(s[Len(s)]) THEN RStrip(SubSeq(s, 1, Len(s) - 1)) ELSE s

\* str.strip()
Strip(s) == RStrip(LStrip(s))

\* str.rstrip(';')
RECURSIVE RStripSemicolons(_)
RStripSemicolons(s) ==
    IF s # <<>> /\ s[Len(s)] = ";"
    THEN RStripSemicolons(SubSeq(s, 1, Len(s) - 1))
    ELSE s

\* sqlparse's statement splitter: a statement ends at a separator and takes
\* the white space after it; what is left at the end is a statement unless it
\* is all white space. st is <<statements so far, the one being read,
\* whether a separator ended it>>.
RECURSIVE SplitFrom(_, _)
SplitFrom(s, st) ==
    IF s = <<>>
    THEN IF st[2] # <<>> /\ ~Blank(st[2]) THEN Append(st[1], st[2]) ELSE st[1]
    ELSE LET c == Head(s)
             closed == st[3] /\ ~IsSpace(c)
             done == IF closed THEN Append(st[1], st[2]) ELSE st[1]
             cur == IF closed THEN <<c>> ELSE Append(st[2], c)
             ends == IF closed THEN c = ";" ELSE (st[3] \/ c = ";")
         IN  SplitFrom(Tail(s), <<done, cur, ends>>)

\* sqlparse.split(statement): every statement stripped
Split(s) ==
    LET stmts == SplitFrom(s, <<<<>>, <<>>, FALSE>>)
    IN  [k \in 1..Len(stmts) |-> Strip(stmts[k])]

(***************************************************************************)
(* SQLExecute.run: one statement.                                          *)
(***************************************************************************)
\* sql.endswith('\\G')
HasMarker(sql) == sql # <<>> /\ sql[Len(sql)] = "\\G"

\* the marker left on the text handed on
Prepared_keeps_marker(component) == RStripSemicolons(component)

\* the text handed on: sql.rstrip(';'), and sql[:-2].strip() under the marker
Prepared(component) ==
    LET sql == RStripSemicolons(component)
    IN  IF HasMarker(sql) THEN Strip(SubSeq(sql, 1, Len(sql) - 1)) ELSE sql

\* the registry of meta-commands the dispatcher looks the command up in
COMMANDS == {<<"m">>}

\* the command of a statement: its text up to the first space
RECURSIVE FirstWord(_)
FirstWord(s) ==
    IF s = <<>> \/ IsSpace(Head(s)) THEN <<>> ELSE <<Head(s)>> \o FirstWord(Tail(s))

\* special.execute(cur, sql) does not raise CommandNotFound
CommandFound(sql) == FirstWord(sql) \in COMMANDS

Absent == [present |-> FALSE, n |-> 0]

(***************************************************************************)
(* The status text: format_utils and the Backends' format_statistics.      *)
(* A byte count is a sequence of digits in base 1024, the least            *)
(* significant first; the counts taken are below 2^53, where the floats    *)
(* of _humanize_size are exact.                                            *)
(***************************************************************************)
Kilo == 1024
Suffixes == <<"B", "KB", "MB", "GB", "TB">>

\* the digits a byte count is made of, and the digit above the terabytes
LimbValues == {0, 1, 128, 512, 1023}
TopLimbs == {0, 1, 7}
ByteCounts ==
    {low \o <<top>> : low \in [1..Len(Suffixes) -> LimbValues], top \in TopLimbs}

\* the number a sequence of digits stands for
RECURSIVE Value(_)
Value(ds) == IF ds = <<>> THEN 0 ELSE Head(ds) + Kilo * Value(Tail(ds))

ByteCountOf(ds) == ds \o [k \in 1..(Len(Suffixes) + 1 - Len(ds)) |-> 0]

\* num_bytes >= 1024, num_bytes being the count after idx divisions by 1024.0
AtLeastKilo(n, idx) == \E i \in (idx + 2)..Len(n) : n[i] # 0

\* while num_bytes >= 1024 and suffix_index < len(suffixes) - 1
RECURSIVE Scale(_, _)
Scale(n, idx) ==
    IF AtLeastKilo(n, idx) /\ idx < Len(Suffixes) - 1 THEN Scale(n, idx + 1) ELSE idx

\* m times a sequence of digits: the digits of the product and what is
\* carried out of them
RECURSIVE Times(_, _, _)
Times(ds, m, carry) ==
    IF ds = <<>> THEN [low |-> <<>>, high |-> carry]
    ELSE LET prod == Head(ds) * m + carry
             rest == Times(Tail(ds), m, prod \div Kilo)
         IN  [low |-> <<prod % Kilo>> \o rest.low, high |-> rest.high]

\* a fraction, as the digits after the point in base 1024, against one half
AboveHalf(ds) ==
    /\ ds # <<>>
    /\ \/ ds[Len(ds)] > Kilo \div 2
       \/ ds[Len(ds)] = Kilo \div 2 /\ \E i \in 1..(Len(ds) - 1) : ds[i] # 0
ExactlyHalf(ds) ==
    /\ ds # <<>>
    /\ ds[Len(ds)] = Kilo \div 2
    /\ \A i \in 1..(Len(ds) - 1) : ds[i] = 0

\* m * n / 1024^k rounded to an integer as '%.2f' rounds the second decimal
\* of an exact float: to the nearest, and to the even one at a tie
Rounded(n, k, m) ==
    LET frac == Times(SubSeq(n, 1, k), m, 0)
        floor == Value(SubSeq(n, k + 1, Len(n))) * m + frac.high
        up == AboveHalf(frac.low) \/ (ExactlyHalf(frac.low) /\ floor % 2 = 1)
    IN  IF up THEN floor + 1 ELSE floor

\* '%.2f' of a number of hundredths: the whole part, the point, two decimals
TwoDecimals(h) ==
    [whole |-> h \div 100, point |-> TRUE, decimals |-> <<(h % 100) \div 10, h % 10>>]

\* .rstrip('0'): the zeros at the end of the text, which the point ends
RECURSIVE RStripZeros(_)
RStripZeros(num) ==
    IF num.point /\ num.decimals # <<>> /\ num.decimals[Len(num.decimals)] = 0
    THEN RStripZeros([num EXCEPT !.decimals = SubSeq(@, 1, Len(@) - 1)])
    ELSE num

\* .rstrip('.')
RStripPoint(num) == IF num.point /\ num.decimals = <<>> THEN [num EXCEPT !.point = FALSE] ELSE num

\* the number left with both its decimals
Trim_nothing(num) == num

\* ('%.2f' % num_bytes).rstrip('0').rstrip('.')
Trim(num) == RStripPoint(RStripZeros(num))

\* AthenaBackend._humanize_size
_humanize_size(num_bytes) ==
    LET suffix_index == Scale(num_bytes, 0)
    IN  [num |-> Trim(TwoDecimals(Rounded(num_bytes, suffix_index, 100))),
         unit |-> Suffixes[suffix_index + 1]]

\* the statistics a cursor carries after a statement
Cursor(bytes, millis) == [data_scanned_in_bytes |-> bytes, engine_execution_time_in_millis |-> millis]

\* the cursor of a statement that scanned nothing
QuietCursor == Cursor(ByteCountOf(<<>>), 0)

\* AthenaBackend.format_statistics: the time, the data scanned and the cost
\* at 5 dollars a terabyte; RedshiftBackend.format_statistics: ''
format_statistics(kind, cursor) ==
    IF kind = "athena"
    THEN <<[millis |-> cursor.engine_execution_time_in_millis,
            scanned |-> _humanize_size(cursor.data_scanned_in_bytes),
            cost |-> TwoDecimals(Rounded(cursor.data_scanned_in_bytes,
                                         Len(Suffixes) - 1, 500))]>>
    ELSE <<>>

\* format_utils.statistics: cursor and backend are objects, hence true
statistics(cursor, kind) == format_statistics(kind, cursor)

\* format_utils.rows_status
rows_status(rows_length) ==
    IF rows_length.present /\ rows_length.n > 0
    THEN [n |-> rows_length.n,
          text |-> IF rows_length.n = 1 THEN "row in set" ELSE "rows in set"]
    ELSE [n |-> 0, text |-> "Query OK"]

\* the status without the Backend's statistics
format_status_rows_only(rows_length, cursor, kind) ==
    [head |-> rows_status(rows_length), tail |-> <<>>]

\* format_utils.format_status: rows_status(...) + statistics(...)
format_status(rows_length, cursor, kind) ==
    [head |-> rows_status(rows_length), tail |-> statistics(cursor, kind)]

\* a status that is not made by format_status
PlainStatus(txt) == [head |-> [n |-> 0, text |-> txt], tail |-> <<>>]

\* yield (None, None, None, None)
Sentinel ==
    [stmt |-> 0, part |-> 0, kind |-> "sentinel", rows |-> Absent, headers |-> FALSE,
     status |-> PlainStatus("None")]

\* the rows fetched whether or not the cursor describes columns
get_result_rows_always(i, tabular, nrows) ==
    [stmt |-> i, part |-> 1, kind |-> "sql", rows |-> [present |-> TRUE, n |-> nrows],
     headers |-> tabular,
     status |-> format_status([present |-> TRUE, n |-> nrows], QuietCursor, backendKind)]

\* SQLExecute.get_result: cursor.description is None or not; the cursor's
\* statistics are those of a statement that scanned nothing
get_result(i, tabular, nrows) ==
    LET rows == IF tabular THEN [present |-> TRUE, n |-> nrows] ELSE Absent
    IN  [stmt |-> i, part |-> 1, kind |-> "sql", rows |-> rows, headers |-> tabular,
         status |-> format_status(rows, QuietCursor, backendKind)]

\* the results a meta-command hands back
SpecialResults(i, n) ==
    [k \in 1..n |->
       [stmt |-> i, part |-> k, kind |-> "special", rows |-> Absent, headers |-> FALSE,
        status |-> PlainStatus("special")]]

\* what the collaborators may do with one statement: the dispatcher raises or
\* hands back results; the cursor raises in execute or in fetchall, or reports
\* no column descriptors, or reports some and returns rows
StatementOutcomes(sql) ==
    IF CommandFound(sql)
    THEN {[error |-> "dispatch", n |-> 0, tabular |-> FALSE]}
           \cup {[error |-> "none", n |-> k, tabular |-> FALSE] : k \in 1..MaxSpecialResults}
    ELSE {[error |-> e, n |-> 0, tabular |-> e = "fetch"] : e \in {"execute", "fetch"}}
           \cup {[error |-> "none", n |-> 0, tabular |-> FALSE]}
           \cup {[error |-> "none", n |-> k, tabular |-> TRUE] : k \in 0..MaxRows}

\* hasattr(cursor, 'output_location') with the drivers' cursors: pyathena's
\* have the attribute, psycopg2's have not
DriverCursor(kind) == {kind = "athena"}

\* the same, for each way the cursor object may be: with the attribute
\* output_location or without; the attribute is looked at by get_result only,
\* so that it is left out where get_result is not reached
CursorOutcomes(sql, attr) ==
    {[error |-> o.error, n |-> o.n, tabular |-> o.tabular, output_location |-> x] :
        o \in {c \in StatementOutcomes(sql) : ~CommandFound(sql) /\ c.error # "execute"},
        x \in attr}
      \cup {[error |-> o.error, n |-> o.n, tabular |-> o.tabular, output_location |-> FALSE] :
               o \in {c \in StatementOutcomes(sql) : CommandFound(sql) \/ c.error = "execute"}}

\* the attributes of the cursor that matter to get_result
CursorAttrs(o) == IF o.output_location THEN <<"output_location">> ELSE <<>>

\* a Backend reporting every capability
supports_special_command_any(kind, command) == TRUE

\* supports_special_command: command == 'output_location' (Athena), False
\* (the base class and Redshift)
supports_special_command(kind, command) ==
    IF kind = "athena" THEN command = "output_location" ELSE FALSE

\* get_result publishes the cursor's output location before it reads the
\* description
Publishes(kind, o) ==
    supports_special_command(kind, "output_location") /\ o.output_location

\* the exception of one statement leaving run() only when no cursor was had
Raises_only_at_cursor(error) == error = "cursor"

\* an exception raised inside the loop body is caught nowhere in run()
Raises(error) == error # "none"

\* cur.execute(sql) reached whatever the dispatcher said
ExecutedAsSql_always(connected, found) == connected

\* cur.execute(sql) is reached through "except special.CommandNotFound" only
ExecutedAsSql(connected, found) == connected /\ ~found

\* the calls the loop body makes on its collaborators, in the order made
Call(op, i, txt) == [op |-> op, stmt |-> i, text |-> txt]

\* the marker turning the expanded output off
ExpandedArg_false == <<"False">>

\* special.set_expanded_output(True): the argument
ExpandedArg == <<"True">>

\* the regular-SQL branch yielding a result only for a tabular statement
SqlYield_only_tabular(i, o) ==
    IF o.tabular THEN <<get_result(i, o.tabular, o.n)>> ELSE <<>>

\* except special.CommandNotFound: cur.execute(sql); yield self.get_result(cur)
SqlYield(i, o) == <<get_result(i, o.tabular, o.n)>>

\* the body of "for sql in components" for the i-th component: what it
\* yields, what it hands to the dispatcher and to the cursor, how it ends
RunOne(i, component, connected, o) ==
    LET sql == Prepared(component)
        marked == HasMarker(RStripSemicolons(component))
        found == CommandFound(sql)
        sqlrun == ExecutedAsSql(connected, found)
        extracted == sqlrun /\ o.error # "execute"
    IN  [expanded |-> IF marked THEN 1 ELSE 0,
         cursors |-> IF connected THEN 1 ELSE 0,
         dispatched |-> IF connected THEN <<sql>> ELSE <<>>,
         executed |-> IF sqlrun THEN <<sql>> ELSE <<>>,
         described |-> IF extracted THEN <<[stmt |-> i, present |-> o.tabular]>> ELSE <<>>,
         calls |-> (IF marked THEN <<Call("set_expanded_output", i, ExpandedArg)>> ELSE <<>>)
                     \o <<Call("get_cursor", i, <<>>)>>
                     \o (IF connected THEN <<Call("special.execute", i, sql)>> ELSE <<>>)
                     \o (IF sqlrun THEN <<Call("cur.execute", i, sql)>> ELSE <<>>)
                     \o (IF extracted THEN <<Call("get_result", i, CursorAttrs(o))>> ELSE <<>>)
                     \o (IF extracted /\ Publishes(backendKind, o)
                         THEN <<Call("special.set_output_location", i, <<>>)>> ELSE <<>>),
         yielded |-> IF ~connected \/ o.error # "none" THEN <<>>
                     ELSE IF found THEN SpecialResults(i, o.n)
                     ELSE SqlYield(i, o),
         error |-> IF ~connected THEN "cursor" ELSE o.error]

NoEffects ==
    [cursors |-> 0, dispatched |-> <<>>, executed |-> <<>>, expanded |-> 0,
     described |-> <<>>, calls |-> <<>>, error |-> "none"]

\* the empty test made on the text as given
Trimmed_not_stripped(s) == s

\* statement = statement.strip()
Trimmed(s) == Strip(s)

InitRun ==
    /\ backendKind \in {"athena", "redshift"}
    /\ completer_thread = 0
    /\ restart_refresh = FALSE
    /\ workers = [w \in WorkerIds |-> NoWorker]
    /\ ipc = Idle
    /\ acks = <<>>
    /\ text \in Texts
    /\ rpc = "start"
    /\ components = <<>>
    /\ pos = 0
    /\ results = <<>>
    /\ conn \in {0, 1}
    /\ database = <<"d1">>
    /\ executor_database = <<"d1">>
    /\ session = NoSession
    /\ catalog_name = <<"AwsDataCatalog">>
    /\ sockets = [c \in ConnIds |->
                    IF c = 1
                    THEN [state |-> IF conn = 1 THEN "open" ELSE "closed",
                          schema |-> <<"d1">>, catalog |-> <<"AwsDataCatalog">>,
                          autocommit |-> backendKind = "redshift"]
                    ELSE NoSocket]
    /\ last = NoCall
    /\ app = NoApp
    /\ effects = NoEffects

\* run() up to the loop: strip, the empty test and its yield, the split
RunBegin ==
    /\ rpc = "start"
    /\ results' = IF Trimmed(text) = <<>> THEN <<Sentinel>> ELSE <<>>
    /\ components' = Split(Trimmed(text))
    /\ pos' = 1
    /\ rpc' = "loop"
    /\ UNCHANGED <<text, conn, effects>>
    /\ UNCHANGED refresherVars
    /\ UNCHANGED functionVars
    /\ UNCHANGED backendVars

\* one turn of "for sql in components"
RunStatement ==
    /\ rpc = "loop"
    /\ pos <= Len(components)
    /\ \E o \in CursorOutcomes(Prepared(components[pos]), DriverCursor(backendKind)) :
         LET r == RunOne(pos, components[pos], conn # 0, o)
         IN  /\ results' = results \o r.yielded
             /\ effects' = [cursors |-> effects.cursors + r.cursors,
                            dispatched |-> effects.dispatched \o r.dispatched,
                            executed |-> effects.executed \o r.executed,
                            expanded |-> effects.expanded + r.expanded,
                            described |-> effects.described \o r.described,
                            calls |-> effects.calls \o r.calls,
                            error |-> r.error]
             /\ rpc' = IF Raises(r.error) THEN "failed" ELSE "loop"
             /\ pos' = IF Raises(r.error) THEN pos ELSE pos + 1
    /\ UNCHANGED <<text, components, conn>>
    /\ UNCHANGED refresherVars
    /\ UNCHANGED functionVars
    /\ UNCHANGED backendVars

\* the loop is over: the generator is exhausted
RunEnd ==
    /\ rpc = "loop"
    /\ pos > Len(components)
    /\ rpc' = "done"
    /\ UNCHANGED <<text, components, pos, results, conn, effects>>
    /\ UNCHANGED refresherVars
    /\ UNCHANGED functionVars
    /\ UNCHANGED backendVars

NextRun == RunBegin \/ RunStatement \/ RunEnd

SpecRun == InitRun /\ [][NextRun]_vars

(***************************************************************************)
(* The Backend: AthenaBackend and RedshiftBackend over DatabaseBackend.    *)
(* A name is a sequence of symbols, "." being the separator of a catalog   *)
(* from a database; <<>> is None or the empty string, both falsy.          *)
(***************************************************************************)
\* the database names a session passes to the constructor and to connect()
DatabaseArgs == {<<>>, <<"d1">>, <<"d2">>, <<"c2", ".", "d1">>}

\* catalog_name or 'AwsDataCatalog'
DefaultCatalog == <<"AwsDataCatalog">>

\* database or self.database or 'dev'
DefaultDatabase == <<"dev">>

\* python's "a or b" on names
Or(a, b) == IF a # <<>> THEN a ELSE b

\* '.' in database
Qualified(name) == \E k \in 1..Len(name) : name[k] = "."

\* the name split at its last separator
SplitFirst_at_last(name) ==
    LET k == CHOOSE j \in 1..Len(name) :
                 name[j] = "." /\ \A h \in (j + 1)..Len(name) : name[h] # "."
    IN  <<SubSeq(name, 1, k - 1), SubSeq(name, k + 1, Len(name))>>

\* database.split('.', 1)
SplitFirst(name) ==
    LET k == CHOOSE j \in 1..Len(name) : name[j] = "." /\ \A h \in 1..(j - 1) : name[h] # "."
    IN  <<SubSeq(name, 1, k - 1), SubSeq(name, k + 1, Len(name))>>

\* AthenaBackend.connect: the catalog and the schema of the connection, and
\* the name that becomes self.database
AthenaParams(arg, db, cat) ==
    LET q == arg # <<>> /\ Qualified(arg)
        d == IF q THEN SplitFirst(arg)[2] ELSE arg
    IN  [schema |-> Or(d, db),
         catalog |-> IF q THEN SplitFirst(arg)[1] ELSE cat,
         database |-> Or(d, db)]

\* AthenaBackend.__init__: the database argument split, and the fields set
\* from it and from the catalog_name argument
AthenaFields(arg, cat) ==
    LET q == arg # <<>> /\ Qualified(arg)
    IN  [database |-> IF q THEN SplitFirst(arg)[2] ELSE arg,
         catalog_name |-> Or(IF q THEN SplitFirst(arg)[1] ELSE cat, DefaultCatalog)]

\* RedshiftBackend.connect: db_name
RedshiftParams(arg, db) ==
    LET db_name == Or(arg, Or(db, DefaultDatabase))
    IN  [schema |-> db_name, catalog |-> <<>>, database |-> db_name]

ConnectParams(kind, arg, db, cat) ==
    IF kind = "athena" THEN AthenaParams(arg, db, cat) ELSE RedshiftParams(arg, db)

\* how a connect() may end: the credentials call raises (Redshift, when
\* use_iam is set and there is no password), the driver's connect raises,
\* set_isolation_level raises on the connection just made (Redshift), or
\* none does
ConnectOutcomes(kind) ==
    IF kind = "athena"
    THEN {"ok", "connect_error"}
    ELSE {"ok", "auth_error", "connect_error", "isolation_error"}

\* the driver has made a connection in this connect()
Created(o) == o \in {"ok", "isolation_error"}

Unused(sk) == {c \in ConnIds : sk[c].state = "unused"}

\* the id of the next connection the driver makes
NextId(sk) == CHOOSE c \in Unused(sk) : \A d \in Unused(sk) : c <= d

ClosedSocket == [state |-> "closed", schema |-> <<>>, catalog |-> <<>>, autocommit |-> FALSE]

Event(ev, c) == [ev |-> ev, id |-> c]

\* the connection installed as soon as the driver has made it
Installed_when_created(o) == Created(o)

\* self.conn = conn is reached only when nothing has raised before it
Installed(o) == o = "ok"

\* self.database assigned before the driver's connect is tried
DatabaseAfter_eager(o, name, db) == name

\* self.database = ... is reached only when nothing has raised before it
DatabaseAfter(o, name, db) == IF o = "ok" THEN name ELSE db

\* self.catalog_name taking the catalog of the connection just made
CatalogAfter_adopted(cat, used) == used

\* connect() works on a local catalog_name and assigns self.catalog_name
\* nowhere
CatalogAfter(cat, used) == cat

\* connect(): what it leaves of the handle, the active database and the
\* driver's connections, and the steps it took, for one way it may end
connect(kind, arg, o, h, db, cat, sk) ==
    LET ps == ConnectParams(kind, arg, db, cat)
        id == NextId(sk)
        made == IF Created(o)
                THEN [sk EXCEPT ![id] = [state |-> "open", schema |-> ps.schema,
                                         catalog |-> ps.catalog,
                                         autocommit |-> (kind = "redshift" /\ o = "ok")]]
                ELSE sk
        swapped == Installed(o) /\ h # 0
    IN  [conn |-> IF Installed(o) THEN id ELSE h,
         database |-> DatabaseAfter(o, ps.database, db),
         catalog_name |-> IF o = "ok" THEN CatalogAfter(cat, ps.catalog) ELSE cat,
         sockets |-> IF swapped THEN [made EXCEPT ![h] = ClosedSocket] ELSE made,
         events |-> (IF Created(o) THEN <<Event("open", id)>> ELSE <<>>)
                      \o (IF kind = "redshift" /\ o = "ok"
                          THEN <<Event("autocommit", id)>> ELSE <<>>)
                      \o (IF swapped THEN <<Event("close", h)>> ELSE <<>>)
                      \o (IF Installed(o) THEN <<Event("install", id)>> ELSE <<>>)]

\* close() leaving the handle in place
HandleAfterClose_kept(h) == h

\* self.conn = None
HandleAfterClose(h) == 0

\* the state a call on the Backend found
Before == [conn |-> conn, database |-> database, sockets |-> sockets]

\* the call made before this one was the same call and did not raise
Again(op, arg) == last.op = op /\ last.arg = arg /\ last.outcome = "ok"

\* the constructors: the database argument split (Athena), the fields set,
\* and self.connect() with no argument; a constructor that raises leaves no
\* instance
InitBackend ==
    /\ backendKind \in {"athena", "redshift"}
    /\ completer_thread = 0
    /\ restart_refresh = FALSE
    /\ workers = [w \in WorkerIds |-> NoWorker]
    /\ ipc = Idle
    /\ acks = <<>>
    /\ text = <<>>
    /\ rpc = "off"
    /\ components = <<>>
    /\ pos = 0
    /\ results = <<>>
    /\ effects = NoEffects
    /\ last = NoCall
    /\ app = NoApp
    /\ \E arg \in DatabaseArgs :
         LET db0 == IF backendKind = "athena" THEN AthenaFields(arg, <<>>).database ELSE arg
             cat0 == IF backendKind = "athena" THEN AthenaFields(arg, <<>>).catalog_name
                     ELSE <<>>
             r == connect(backendKind, <<>>, "ok", 0, db0, cat0, [c \in ConnIds |-> NoSocket])
         IN  /\ catalog_name = cat0
             /\ conn = r.conn
             /\ database = r.database
             /\ executor_database = r.database
             /\ session = NoSession
             /\ sockets = r.sockets

\* self.database left as it was by a connect() that did not raise
ExecutorDatabase_stale(o, backend_database, own) == own

\* self.database = self.backend.database, reached when backend.connect
\* has not raised
ExecutorDatabase(o, backend_database, own) ==
    IF o = "ok" THEN backend_database ELSE own

\* SQLExecute.connect(database): backend.connect(database), then the
\* executor's own copy of the active database name
Connect ==
    /\ \E arg \in DatabaseArgs, o \in ConnectOutcomes(backendKind) :
         /\ Created(o) => Unused(sockets) # {}
         /\ LET r == connect(backendKind, arg, o, conn, database, catalog_name, sockets)
            IN  /\ conn' = r.conn
                /\ database' = r.database
                /\ executor_database' = ExecutorDatabase(o, r.database, executor_database)
                /\ sockets' = r.sockets
                /\ catalog_name' = r.catalog_name
                /\ UNCHANGED session
                /\ last' = [op |-> "connect", arg |-> arg, outcome |-> o, events |-> r.events,
                             rows |-> <<>>, result |-> <<>>, before |-> Before, again |-> Again("connect", arg)]
    /\ UNCHANGED pipelineVars
    /\ UNCHANGED refresherVars
    /\ UNCHANGED functionVars

\* backend.close()
Close ==
    /\ conn' = IF conn # 0 THEN HandleAfterClose(conn) ELSE conn
    /\ sockets' = IF conn # 0 THEN [sockets EXCEPT ![conn] = ClosedSocket] ELSE sockets
    /\ last' = [op |-> "close", arg |-> <<>>, outcome |-> "ok",
                 events |-> IF conn # 0 THEN <<Event("close", conn)>> ELSE <<>>,
                 rows |-> <<>>, result |-> <<>>, before |-> Before, again |-> Again("close", <<>>)]
    /\ UNCHANGED <<database, catalog_name, executor_database, session>>
    /\ UNCHANGED pipelineVars
    /\ UNCHANGED refresherVars
    /\ UNCHANGED functionVars

\* a cursor asked of whatever self.conn is
get_cursor_unchecked(h) == [outcome |-> "cursor", cursor |-> <<h>>]

\* get_cursor(): "Not connected to database" or a cursor of self.conn
get_cursor(h) ==
    IF h = 0 THEN [outcome |-> "not_connected", cursor |-> <<>>]
    ELSE [outcome |-> "cursor", cursor |-> <<h>>]

\* backend.get_cursor()
GetCursor ==
    /\ last' = [op |-> "get_cursor", arg |-> <<>>, outcome |-> get_cursor(conn).outcome,
                 events |-> <<>>, rows |-> <<>>, result |-> get_cursor(conn).cursor,
                 before |-> Before, again |-> Again("get_cursor", <<>>)]
    /\ UNCHANGED <<conn, database, catalog_name, sockets, executor_database, session>>
    /\ UNCHANGED pipelineVars
    /\ UNCHANGED refresherVars
    /\ UNCHANGED functionVars

\* the rows a discovery query may return, MaxRows at most
RowsOf(S) == UNION {[1..n -> S] : n \in 0..MaxRows}

DatabaseRows == {<<"d1">>, <<"d2", "x">>}

\* the last column of every row taken
FirstColumn_last(rows) == [k \in 1..Len(rows) |-> rows[k][Len(rows[k])]]

\* [x[0] for x in cur.fetchall()]
FirstColumn(rows) == [k \in 1..Len(rows) |-> rows[k][1]]

\* a discovery call on the Backend: no cursor, a query that raises, or the
\* rows of the cursor mapped by f
Discovery(op, rows, raised, result) ==
    /\ (raised \/ get_cursor(conn).outcome = "not_connected") => rows = <<>>
    /\ get_cursor(conn).outcome = "not_connected" => ~raised
    /\ last' = [op |-> op, arg |-> <<>>,
                 outcome |-> IF get_cursor(conn).outcome = "not_connected" THEN "not_connected"
                             ELSE IF raised THEN "query_error" ELSE "ok",
                 events |-> <<>>,
                 rows |-> rows,
                 result |-> IF raised \/ get_cursor(conn).outcome = "not_connected"
                            THEN <<>> ELSE result,
                 before |-> Before, again |-> Again(op, <<>>)]
    /\ UNCHANGED <<conn, database, catalog_name, sockets, executor_database, session>>
    /\ UNCHANGED pipelineVars
    /\ UNCHANGED refresherVars
    /\ UNCHANGED functionVars

\* backend.databases()
Databases ==
    \E rows \in RowsOf(DatabaseRows), raised \in BOOLEAN :
        Discovery("databases", rows, raised, FirstColumn(rows))

\* the rows of the tables query: one column, or schema and relation (Redshift)
TableRows(kind) ==
    IF kind = "redshift" THEN {<<"public", "a">>, <<"public", "b">>}
    ELSE {<<"t1">>, <<"t2">>}

\* the qualified name with each part put in double quotes
TableOf_quoted(kind, row) ==
    IF kind = "redshift"
    THEN <<<<"\"", row[1], "\"", ".", "\"", row[2], "\"">>>>
    ELSE row

\* yield row, or yield (f"{schema}.{table}",) (Redshift)
TableOf(kind, row) ==
    IF kind = "redshift" THEN <<<<row[1], ".", row[2]>>>> ELSE row

\* backend.tables(), read to its end
Tables ==
    \E rows \in RowsOf(TableRows(backendKind)), raised \in BOOLEAN :
        Discovery("tables", rows, raised,
                  [k \in 1..Len(rows) |-> TableOf(backendKind, rows[k])])

\* the rows of the columns query: relation and column, after the schema (Redshift)
ColumnRows(kind) ==
    IF kind = "redshift" THEN {<<"public", "a", "c1">>, <<"public", "b", "c1">>}
    ELSE {<<"t1", "c1">>, <<"t2", "c1">>}

\* yield row, or yield (f"{schema}.{table}", column) (Redshift)
ColumnOf(kind, row) ==
    IF kind = "redshift" THEN <<<<row[1], ".", row[2]>>, row[3]>> ELSE row

\* backend.table_columns(), read to its end
TableColumns ==
    \E rows \in RowsOf(ColumnRows(backendKind)), raised \in BOOLEAN :
        Discovery("table_columns", rows, raised,
                  [k \in 1..Len(rows) |-> ColumnOf(backendKind, rows[k])])

\* the texts a session runs on the Backend: of one statement at most
RunTexts == {<<>>, <<" ">>, <<"a">>, <<"m">>}

\* SQLExecute.run(text) read to its end on the Backend as it is
BackendRun ==
    /\ \E t \in RunTexts :
         LET cs == Split(Trimmed(t))
             head == IF Trimmed(t) = <<>> THEN <<Sentinel>> ELSE <<>>
         IN  IF cs = <<>>
             THEN last' = [op |-> "run", arg |-> t, outcome |-> "ok", events |-> <<>>,
                           rows |-> <<>>, result |-> head, before |-> Before, again |-> Again("run", t)]
             ELSE \E o \in CursorOutcomes(Prepared(cs[1]), BOOLEAN) :
                    LET r == RunOne(1, cs[1], get_cursor(conn).outcome = "cursor", o)
                    IN  last' = [op |-> "run", arg |-> t,
                                 outcome |-> IF r.error = "cursor" THEN "not_connected"
                                             ELSE IF Raises(r.error) THEN r.error ELSE "ok",
                                 events |-> r.calls, rows |-> <<>>,
                                 result |-> head \o r.yielded, before |-> Before, again |-> Again("run", t)]
    /\ UNCHANGED <<conn, database, catalog_name, sockets, executor_database, session>>
    /\ UNCHANGED pipelineVars
    /\ UNCHANGED refresherVars
    /\ UNCHANGED functionVars

NextBackend ==
    \/ Connect
    \/ Close
    \/ GetCursor
    \/ Databases
    \/ Tables
    \/ TableColumns
    \/ BackendRun

SpecBackend == InitBackend /\ [][NextBackend]_vars

(***************************************************************************)
(* One Backend used by a refresh worker and by the interactive thread.     *)
(* The worker runs the discovery calls of its tasks, each a cursor asked   *)
(* of self.conn, a query, and the rows read one by one; the interactive    *)
(* thread runs statements, reconnects and closes.                          *)
(***************************************************************************)
\* the Backend calls of one pass: refresh_databases, then refresh_tables
DiscoveryCalls == <<"databases", "tables", "table_columns">>

\* a lock around the Backend, held by whoever holds a cursor
Blocked_by_lock(other) == other.cur # 0

\* neither get_cursor nor connect nor close takes a lock or looks at what
\* the other thread is doing
Blocked(other) == FALSE

\* the connection of a cursor is closed
Closed(cur) == cur # 0 /\ sockets[cur].state # "open"

\* except Exception: column_data = [] around list(executor.table_columns())
\* in the Redshift branch; any other exception leaves the task and the
\* worker; the with statement has closed the cursor
Caught(kind, call) == kind = "redshift" /\ call = "table_columns"

TaskRaised(wk) ==
    IF Caught(backendKind, DiscoveryCalls[wk.task])
    THEN [wk EXCEPT !.pc = "done", !.cur = 0, !.left = 0]
    ELSE [wk EXCEPT !.pc = "failed", !.cur = 0, !.left = 0]

\* the interactive layer hands its SQLExecute to refresh(): the worker and
\* the statements use one Backend and its one connection
InitShared ==
    /\ backendKind \in {"athena", "redshift"}
    /\ completer_thread = 0
    /\ restart_refresh = FALSE
    /\ workers = [w \in WorkerIds |-> NoWorker]
    /\ ipc = Idle
    /\ acks = <<>>
    /\ text = <<>>
    /\ rpc = "off"
    /\ components = <<>>
    /\ pos = 0
    /\ results = <<>>
    /\ effects = NoEffects
    /\ last = NoCall
    /\ app = NoApp
    /\ LET cat0 == IF backendKind = "athena" THEN DefaultCatalog ELSE <<>>
           r == connect(backendKind, <<>>, "ok", 0, <<"d1">>, cat0,
                        [c \in ConnIds |-> NoSocket])
       IN  /\ catalog_name = cat0
           /\ conn = r.conn
           /\ database = r.database
           /\ executor_database = r.database
           /\ sockets = r.sockets
    /\ session = [worker |-> [NoSession.worker EXCEPT !.pc = "cursor", !.task = 1],
                  run |-> [NoSession.run EXCEPT !.pc = "idle"]]

\* with self.get_cursor() as cur: the cursor of whatever self.conn is now
TaskCursor ==
    /\ session.worker.pc = "cursor"
    /\ ~Blocked(session.run)
    /\ session' = [session EXCEPT !.worker =
                      IF get_cursor(conn).outcome = "not_connected"
                      THEN TaskRaised(@)
                      ELSE [@ EXCEPT !.pc = "execute", !.cur = get_cursor(conn).cursor[1]]]
    /\ UNCHANGED <<conn, database, catalog_name, sockets, last, executor_database>>
    /\ UNCHANGED pipelineVars
    /\ UNCHANGED refresherVars
    /\ UNCHANGED functionVars

\* cur.execute(query): raises, or leaves rows to read
TaskExecute ==
    /\ session.worker.pc = "execute"
    /\ \E raised \in BOOLEAN, n \in 0..MaxRows :
         session' = [session EXCEPT !.worker =
                       IF raised THEN TaskRaised(@)
                       ELSE [@ EXCEPT !.pc = "rows", !.left = n]]
    /\ UNCHANGED <<conn, database, catalog_name, sockets, last, executor_database>>
    /\ UNCHANGED pipelineVars
    /\ UNCHANGED refresherVars
    /\ UNCHANGED functionVars

\* the rows one read takes: cur.fetchall() takes them all, "for row in cur"
\* takes one
Taken(call, left) == IF call = "databases" THEN left ELSE 1

\* the next row asked of the cursor (all of them for databases()); on a
\* cursor whose connection is closed the driver raises or hands out what it
\* had buffered, and a read may raise in any case
TaskRead ==
    /\ session.worker.pc = "rows"
    /\ session.worker.left > 0
    /\ \E raised \in BOOLEAN :
         session' = [session EXCEPT !.worker =
                       IF raised
                       THEN [TaskRaised(@) EXCEPT !.stale = @ \/ Closed(session.worker.cur)]
                       ELSE [@ EXCEPT !.left = @ - Taken(DiscoveryCalls[session.worker.task],
                                                         session.worker.left),
                                      !.stale = @ \/ Closed(session.worker.cur)]]
    /\ UNCHANGED <<conn, database, catalog_name, sockets, last, executor_database>>
    /\ UNCHANGED pipelineVars
    /\ UNCHANGED refresherVars
    /\ UNCHANGED functionVars

\* the rows are read: the with statement closes the cursor and the next
\* discovery call, if any, follows
TaskEnd ==
    /\ session.worker.pc = "rows"
    /\ session.worker.left = 0
    /\ session' = [session EXCEPT !.worker =
                      IF session.worker.task < Len(DiscoveryCalls)
                      THEN [@ EXCEPT !.pc = "cursor", !.task = @ + 1, !.cur = 0]
                      ELSE [@ EXCEPT !.pc = "done", !.cur = 0]]
    /\ UNCHANGED <<conn, database, catalog_name, sockets, last, executor_database>>
    /\ UNCHANGED pipelineVars
    /\ UNCHANGED refresherVars
    /\ UNCHANGED functionVars

\* run(): cur = self.backend.get_cursor() for a statement
StatementCursor ==
    /\ session.run.pc = "idle"
    /\ ~Blocked(session.worker)
    /\ get_cursor(conn).outcome = "cursor"
    /\ session' = [session EXCEPT !.run = [@ EXCEPT !.pc = "execute",
                                                     !.cur = get_cursor(conn).cursor[1]]]
    /\ UNCHANGED <<conn, database, catalog_name, sockets, last, executor_database>>
    /\ UNCHANGED pipelineVars
    /\ UNCHANGED refresherVars
    /\ UNCHANGED functionVars

\* run(): special.execute(cur, sql) or cur.execute(sql); raises, or a result
\* is to be read
StatementExecute ==
    /\ session.run.pc = "execute"
    /\ \E raised \in BOOLEAN :
         session' = [session EXCEPT !.run =
                       IF raised THEN [@ EXCEPT !.pc = "idle", !.cur = 0]
                       ELSE [@ EXCEPT !.pc = "result"]]
    /\ UNCHANGED <<conn, database, catalog_name, sockets, last, executor_database>>
    /\ UNCHANGED pipelineVars
    /\ UNCHANGED refresherVars
    /\ UNCHANGED functionVars

\* run(): yield self.get_result(cur); the cursor is let go of
StatementResult ==
    /\ session.run.pc = "result"
    /\ session' = [session EXCEPT !.run = [pc |-> "idle", cur |-> 0, yielded |-> TRUE]]
    /\ UNCHANGED <<conn, database, catalog_name, sockets, last, executor_database>>
    /\ UNCHANGED pipelineVars
    /\ UNCHANGED refresherVars
    /\ UNCHANGED functionVars

\* SQLExecute.connect(database) between two statements
Reconnect ==
    /\ session.run.pc = "idle"
    /\ ~Blocked(session.worker)
    /\ \E arg \in {<<>>, <<"d2">>}, o \in ConnectOutcomes(backendKind) :
         /\ Created(o) => Unused(sockets) # {}
         /\ LET r == connect(backendKind, arg, o, conn, database, catalog_name, sockets)
            IN  /\ conn' = r.conn
                /\ database' = r.database
                /\ executor_database' = ExecutorDatabase(o, r.database, executor_database)
                /\ sockets' = r.sockets
                /\ catalog_name' = r.catalog_name
    /\ UNCHANGED <<last, session>>
    /\ UNCHANGED pipelineVars
    /\ UNCHANGED refresherVars
    /\ UNCHANGED functionVars

\* backend.close() between two statements
Disconnect ==
    /\ session.run.pc = "idle"
    /\ ~Blocked(session.worker)
    /\ conn # 0
    /\ conn' = HandleAfterClose(conn)
    /\ sockets' = [sockets EXCEPT ![conn] = ClosedSocket]
    /\ UNCHANGED <<database, catalog_name, last, executor_database, session>>
    /\ UNCHANGED pipelineVars
    /\ UNCHANGED refresherVars
    /\ UNCHANGED functionVars

TaskStep == TaskCursor \/ TaskExecute \/ TaskRead \/ TaskEnd

InteractiveStep ==
    StatementCursor \/ StatementExecute \/ StatementResult \/ Reconnect \/ Disconnect

NextShared ==
    \/ TaskCursor
    \/ TaskExecute
    \/ TaskRead
    \/ TaskEnd
    \/ StatementCursor
    \/ StatementExecute
    \/ StatementResult
    \/ Reconnect
    \/ Disconnect

SpecShared == InitShared /\ [][NextShared]_vars

(***************************************************************************)
(* Functions applied on their own: _humanize_size, format_status, and the  *)
(* database argument of the Athena Backend.                                *)
(***************************************************************************)
MaxName == 5

\* database arguments: names of at most MaxName characters and separators
NameChars == {"c", "d", "."}
Names == UNION {[1..n -> NameChars] : n \in 0..MaxName}

\* the catalog_name argument of the constructor: None, or a catalog
CatalogArgs == {<<>>, <<"k">>}

\* self.catalog_name: the default, or the catalog the constructor was given
ConfiguredCatalogs == {DefaultCatalog, <<"k">>}

\* the cursors format_status is given
Cursors ==
    {Cursor(ByteCountOf(b), ms) :
        b \in {<<>>, <<512, 1>>, <<1023, 1023>>, <<0, 0, 0, 0, 1>>, <<0, 0, 0, 512, 2>>},
        ms \in {0, 12}}

RowsLengths == {Absent} \cup {[present |-> TRUE, n |-> k] : k \in 0..MaxRows}

Apply(fn, args) == [fn |-> fn, args |-> args, out |-> <<>>, done |-> FALSE]

(***************************************************************************)
(* AWSConfig: the result-reuse settings. A value is None, a bool, an int   *)
(* or a string; the strings given for the minutes are sequences of         *)
(* characters, those given for the switch are whole words.                 *)
(***************************************************************************)
MaxMinutesText == 2

None == [kind |-> "none", b |-> FALSE, n |-> 0, s |-> "", cs |-> <<>>]
BoolValue(b) == [None EXCEPT !.kind = "bool", !.b = b]
IntValue(n) == [None EXCEPT !.kind = "int", !.n = n]
Word(s) == [None EXCEPT !.kind = "str", !.s = s]
Text(cs) == [None EXCEPT !.kind = "str", !.cs = cs]

\* what may be given for result_reuse_enable
Words == {"true", "True", "TRUE", "1", "yes", "On", "false", "0", "no", "", "maybe"}
EnableValues == {None, BoolValue(TRUE), BoolValue(FALSE), IntValue(0), IntValue(2)} \cup {Word(s) : s \in Words}

\* what may be given for result_reuse_minutes
MinutesChars == {"9", "0", "x", " ", "-"}
MinutesTexts == UNION {[1..n -> MinutesChars] : n \in 0..MaxMinutesText}
MinutesValues == {None, IntValue(0), IntValue(120)} \cup {Text(cs) : cs \in MinutesTexts}

\* the config file: without the section of the profile, or with it and with
\* whatever it gives for the two settings
NoSection == [found |-> FALSE, result_reuse_enable |-> None, result_reuse_minutes |-> None]
Section(e, m) == [found |-> TRUE, result_reuse_enable |-> e, result_reuse_minutes |-> m]

\* _cfg.get(key): None when the section or the key is not there
CfgGet(config, key) == IF config.found THEN config[key] ELSE None

\* str.lower()
Lower(s) ==
    CASE s = "True" -> "true"
      [] s = "TRUE" -> "true"
      [] s = "On" -> "on"
      [] OTHER -> s

\* the first true value used, as get_val does
get_bool_first_true(vals) ==
    IF \E k \in 1..Len(vals) : vals[k].kind = "bool" /\ vals[k].b
    THEN TRUE
    ELSE \E k \in 1..Len(vals) :
            vals[k].kind = "str" /\ Lower(vals[k].s) \in {"true", "1", "yes", "on"}

\* get_bool(*vals): the first value that is not None, as a boolean
RECURSIVE get_bool(_)
get_bool(vals) ==
    IF vals = <<>> THEN FALSE
    ELSE LET v == Head(vals)
         IN  IF v.kind = "none" THEN get_bool(Tail(vals))
             ELSE IF v.kind = "bool" THEN v.b
             ELSE IF v.kind = "str" THEN Lower(v.s) \in {"true", "1", "yes", "on"}
             ELSE v.n # 0

\* int(str): the text without the white space around it is an optional sign
\* and then digits, at least one
DigitValue(c) == IF c = "9" THEN 9 ELSE 0
IsDigit(c) == c \in {"9", "0"}
RECURSIVE Digits(_)
Digits(cs) == IF cs = <<>> THEN 0 ELSE 10 * Digits(SubSeq(cs, 1, Len(cs) - 1)) + DigitValue(cs[Len(cs)])
IntOfText(cs) ==
    LET t == Strip(cs)
        neg == t # <<>> /\ t[1] = "-"
        ds == IF neg THEN Tail(t) ELSE t
        ok == ds # <<>> /\ \A k \in 1..Len(ds) : IsDigit(ds[k])
    IN  [ok |-> ok, n |-> IF ~ok THEN 0 ELSE IF neg THEN 0 - Digits(ds) ELSE Digits(ds)]

\* int(v): ValueError or TypeError, or the integer
IntOf(v) ==
    IF v.kind = "str" THEN IntOfText(v.cs)
    ELSE IF v.kind = "bool" THEN [ok |-> TRUE, n |-> IF v.b THEN 1 ELSE 0]
    ELSE [ok |-> v.kind = "int", n |-> v.n]

\* get_int(*vals): the first value that is not None and that int() takes
RECURSIVE get_int(_)
get_int(vals) ==
    IF vals = <<>> THEN 60
    ELSE LET v == Head(vals)
         IN  IF v.kind # "none" /\ IntOf(v).ok THEN IntOf(v).n
             ELSE get_int(Tail(vals))

\* AWSConfig.__init__: the two result-reuse fields
AWSConfig(result_reuse_enable, result_reuse_minutes, config) ==
    [result_reuse_enable |->
        get_bool(<<result_reuse_enable, CfgGet(config, "result_reuse_enable"), BoolValue(FALSE)>>),
     result_reuse_minutes |->
        get_int(<<result_reuse_minutes, CfgGet(config, "result_reuse_minutes"), IntValue(60)>>)]

\* the configurations tried: every pair of values for one setting, with the
\* other setting left out or given in the config file
ConfigInputs ==
    {[result_reuse_enable |-> e, result_reuse_minutes |-> None, config |-> NoSection] :
        e \in EnableValues}
      \cup {[result_reuse_enable |-> None, result_reuse_minutes |-> m, config |-> NoSection] :
               m \in MinutesValues}
      \cup {[result_reuse_enable |-> e, result_reuse_minutes |-> None,
              config |-> Section(ce, cm)] :
               e \in EnableValues, ce \in EnableValues, cm \in {None, Text(<<"9", "0">>)}}
      \cup {[result_reuse_enable |-> None, result_reuse_minutes |-> m,
              config |-> Section(ce, cm)] :
               m \in MinutesValues, cm \in MinutesValues, ce \in {None, Word("true")}}

InitFunctions ==
    /\ backendKind \in {"athena", "redshift"}
    /\ completer_thread = 0
    /\ restart_refresh = FALSE
    /\ workers = [w \in WorkerIds |-> NoWorker]
    /\ ipc = Idle
    /\ acks = <<>>
    /\ text = <<>>
    /\ rpc = "off"
    /\ components = <<>>
    /\ pos = 0
    /\ results = <<>>
    /\ conn = 0
    /\ database = <<>>
    /\ executor_database = <<>>
    /\ session = NoSession
    /\ catalog_name = <<>>
    /\ sockets = [c \in ConnIds |-> NoSocket]
    /\ last = NoCall
    /\ effects = NoEffects
    /\ \/ /\ backendKind = "athena"
          /\ \E b \in ByteCounts : app = Apply("_humanize_size", [num_bytes |-> b])
       \/ \E n \in RowsLengths, c \in Cursors :
             app = Apply("format_status", [rows_length |-> n, cursor |-> c])
       \/ /\ backendKind = "athena"
          /\ \E d \in Names, c \in CatalogArgs :
                app = Apply("__init__", [database |-> d, catalog_name |-> c])
       \/ /\ backendKind = "athena"
          /\ \E d \in Names, c \in ConfiguredCatalogs :
                app = Apply("connect", [database |-> d, self_database |-> <<"d0">>,
                                        self_catalog_name |-> c])
       \/ /\ backendKind = "athena"
          /\ \E in \in ConfigInputs : app = Apply("AWSConfig", in)

\* self._humanize_size(num_bytes)
Humanize ==
    /\ app.fn = "_humanize_size" /\ ~app.done
    /\ app' = [app EXCEPT !.out = _humanize_size(app.args.num_bytes), !.done = TRUE]
    /\ UNCHANGED refresherVars
    /\ UNCHANGED runVars
    /\ UNCHANGED backendVars

\* format_status(rows_length=..., cursor=cursor, backend=self.backend)
FormatStatus ==
    /\ app.fn = "format_status" /\ ~app.done
    /\ app' = [app EXCEPT !.out = format_status(app.args.rows_length, app.args.cursor,
                                                 backendKind),
                           !.done = TRUE]
    /\ UNCHANGED refresherVars
    /\ UNCHANGED runVars
    /\ UNCHANGED backendVars

\* AthenaBackend(database=..., catalog_name=...): the fields set, and the
\* connection self.connect() asks the driver for
AthenaConstruct ==
    /\ app.fn = "__init__" /\ ~app.done
    /\ LET f == AthenaFields(app.args.database, app.args.catalog_name)
           ps == AthenaParams(<<>>, f.database, f.catalog_name)
       IN  app' = [app EXCEPT !.out = [catalog |-> ps.catalog, schema |-> ps.schema,
                                       database |-> ps.database,
                                       catalog_name |-> f.catalog_name],
                              !.done = TRUE]
    /\ UNCHANGED refresherVars
    /\ UNCHANGED runVars
    /\ UNCHANGED backendVars

\* backend.connect(database) on an Athena Backend: the connection asked of
\* the driver, and the fields after it
AthenaConnect ==
    /\ app.fn = "connect" /\ ~app.done
    /\ LET ps == AthenaParams(app.args.database, app.args.self_database,
                              app.args.self_catalog_name)
       IN  app' = [app EXCEPT !.out = [catalog |-> ps.catalog, schema |-> ps.schema,
                                       database |-> ps.database,
                                       catalog_name |-> app.args.self_catalog_name],
                              !.done = TRUE]
    /\ UNCHANGED refresherVars
    /\ UNCHANGED runVars
    /\ UNCHANGED backendVars

\* AWSConfig(..., result_reuse_enable=..., result_reuse_minutes=...)
Configure ==
    /\ app.fn = "AWSConfig" /\ ~app.done
    /\ app' = [app EXCEPT !.out = AWSConfig(app.args.result_reuse_enable,
                                            app.args.result_reuse_minutes,
                                            app.args.config),
                           !.done = TRUE]
    /\ UNCHANGED refresherVars
    /\ UNCHANGED runVars
    /\ UNCHANGED backendVars

NextFunctions == Humanize \/ FormatStatus \/ AthenaConstruct \/ AthenaConnect \/ Configure

SpecFunctions == InitFunctions /\ [][NextFunctions]_vars

(***************************************************************************)
(* Properties of the execution pipeline.                                   *)
(***************************************************************************)
\* a text cut at every separator
RECURSIVE Pieces(_)
Pieces(s) ==
    IF \E k \in 1..Len(s) : s[k] = ";"
    THEN LET k == CHOOSE j \in 1..Len(s) : s[j] = ";" /\ \A h \in 1..(j - 1) : s[h] # ";"
         IN  <<SubSeq(s, 1, k - 1)>> \o Pieces(SubSeq(s, k + 1, Len(s)))
    ELSE <<s>>

\* the statements of a text that is statements joined by separators, the last
\* of them possibly followed by one more separator; <<>> for any other text
Batch(s) ==
    LET ps == Pieces(Strip(s))
        body == IF Len(ps) > 1 /\ Blank(ps[Len(ps)]) THEN SubSeq(ps, 1, Len(ps) - 1) ELSE ps
    IN  IF \A k \in 1..Len(body) : ~Blank(body[k]) THEN body ELSE <<>>

\* the C9 statement as first made: a batch of N statements none of which
\* fails yields exactly N results, the i-th for the i-th statement
C9_OneResultPerStatement ==
    (Batch(text) # <<>> /\ rpc = "done") =>
        /\ Len(results) = Len(Batch(text))
        /\ \A i \in 1..Len(results) : results[i].stmt = i

\* C9: a batch of N statements none of which fails yields, in source order,
\* one result for every SQL statement and the results the dispatcher hands
\* back for every meta-command, at least one each; N results in all when
\* every meta-command hands back one.
C9_ResultsInSourceOrder ==
    (Batch(text) # <<>> /\ rpc = "done") =>
        LET N == Len(Batch(text))
        IN  /\ \A k \in 1..Len(results) : results[k].stmt \in 1..N
            /\ \A i \in 1..N : \E k \in 1..Len(results) : results[k].stmt = i
            /\ \A j, k \in 1..Len(results) : j < k => results[j].stmt <= results[k].stmt
            /\ \A j, k \in 1..Len(results) :
                 (results[j].kind = "sql" /\ results[j].stmt = results[k].stmt) => j = k
            /\ (\A k \in 1..Len(results) : results[k].part = 1) => Len(results) = N

\* a batch of two statements is done: a meta-command that handed back two
\* results, and a statement run as SQL
C9_Witness ==
    /\ rpc = "done"
    /\ Len(Batch(text)) = 2
    /\ Len(results) = 3
    /\ \E k \in 1..Len(results) : results[k].kind = "sql"

\* C10: on an empty or all-white-space text run() yields the one sentinel
\* and stops: no cursor, no dispatch, no execution.
C10_EmptyTextYieldsSentinel ==
    (Blank(text) /\ rpc # "start") =>
        /\ results = <<Sentinel>>
        /\ effects = NoEffects
        /\ rpc \in {"loop", "done"}
        /\ ~ENABLED RunStatement

\* run() is over on a text of white space only
C10_Witness == Blank(text) /\ text # <<>> /\ rpc = "done" /\ results # <<>>

(***************************************************************************)
(* The loop body of run(): marker, dispatch, execution, extraction.        *)
(***************************************************************************)
\* the statements run() has got to: the loop body was entered for them
Reached(i) == i \in 1..Len(components) /\ (i < pos \/ (i = pos /\ rpc = "failed"))

\* the statement ends with the marker, or with the marker and the separator
TrailingMarker(c) ==
    \/ (Len(c) >= 1 /\ c[Len(c)] = "\\G")
    \/ (Len(c) >= 2 /\ c[Len(c)] = ";" /\ c[Len(c) - 1] = "\\G")

\* the calls made for statement i that hand a text on
HandedOn(i) ==
    {k \in 1..Len(effects.calls) :
        effects.calls[k].stmt = i /\ effects.calls[k].op \in {"special.execute", "cur.execute"}}

\* how often the flag was set for statement i
FlagSets(i) ==
    Cardinality({k \in 1..Len(effects.calls) :
        effects.calls[k].stmt = i /\ effects.calls[k].op = "set_expanded_output"})

Markers(s) == Cardinality({k \in 1..Len(s) : s[k] = "\\G"})

\* the C11 statement as first made: the final statement's trailing marker
\* sets the flag once and no marker is in the text handed to the dispatcher
\* or to the cursor; a statement without a trailing marker sets no flag
C11_NoMarkerHandedOn ==
    \A i \in 1..Len(components) :
        Reached(i) =>
            /\ (i = Len(components) /\ TrailingMarker(components[i])) =>
                  /\ FlagSets(i) = 1
                  /\ \A k \in HandedOn(i) : Markers(effects.calls[k].text) = 0
            /\ ~TrailingMarker(components[i]) => FlagSets(i) = 0

\* C11: a trailing marker (with or without the separator after it) on a
\* statement run() has got to, the final one included, sets the flag exactly
\* once, and that marker is taken off the text handed to the dispatcher and to
\* the cursor: the text is the statement without the separator and without
\* its last marker, trimmed, so a marker standing before the trailing one is
\* handed on; a statement without a trailing marker sets no flag and is
\* handed on with its separator removed.
C11_TrailingMarkerStripped ==
    \A i \in 1..Len(components) :
        Reached(i) =>
            LET c == components[i]
                body == IF c # <<>> /\ c[Len(c)] = ";" THEN SubSeq(c, 1, Len(c) - 1) ELSE c
            IN  /\ TrailingMarker(c) =>
                      /\ FlagSets(i) = 1
                      /\ \A k \in HandedOn(i) :
                            /\ effects.calls[k].text = Strip(SubSeq(body, 1, Len(body) - 1))
                            /\ Markers(effects.calls[k].text) = Markers(c) - 1
                /\ ~TrailingMarker(c) =>
                      /\ FlagSets(i) = 0
                      /\ \A k \in HandedOn(i) : effects.calls[k].text = body

\* a batch of two statements is done, the final one ending with the marker
\* and run as SQL on a text that is not empty
C11_Witness ==
    /\ rpc = "done"
    /\ Len(components) = 2
    /\ TrailingMarker(components[2])
    /\ ~TrailingMarker(components[1])
    /\ effects.expanded = 1
    /\ \E k \in HandedOn(2) : effects.calls[k].op = "cur.execute" /\ effects.calls[k].text # <<>>

\* C12: when getting the cursor, the dispatch, the execution or the
\* extraction raises for statement k, run() ends there with the error: every
\* statement before k has yielded, k and the statements after it have yielded
\* nothing, and nothing is dispatched or executed for a statement after k.
C12_FailFast ==
    /\ effects.error # "none" => rpc = "failed"
    /\ rpc = "failed" =>
          /\ effects.error \in {"cursor", "dispatch", "execute", "fetch"}
          /\ pos \in 1..Len(components)
          /\ \A k \in 1..Len(results) : results[k].stmt \in 1..(pos - 1)
          /\ \A i \in 1..(pos - 1) : \E k \in 1..Len(results) : results[k].stmt = i
          /\ \A k \in 1..Len(effects.calls) : effects.calls[k].stmt <= pos
          /\ ~ENABLED RunStatement
          /\ ~ENABLED RunEnd

\* the second of three statements raised in execution or extraction after
\* the first had yielded
C12_Witness ==
    /\ rpc = "failed"
    /\ pos = 2
    /\ Len(components) = 3
    /\ effects.error \in {"execute", "fetch"}
    /\ Len(results) >= 1

\* C13: for every statement the dispatch is tried first; the text goes to
\* cur.execute exactly when the dispatcher does not know the command, and
\* then it is the text the dispatcher was given; no statement has both
\* results of a meta-command and an execution as SQL.
C13_DispatchThenSql ==
    \A i \in 1..Len(components) :
        LET cs == effects.calls
            disp == {k \in 1..Len(cs) : cs[k].stmt = i /\ cs[k].op = "special.execute"}
            exec == {k \in 1..Len(cs) : cs[k].stmt = i /\ cs[k].op = "cur.execute"}
        IN  /\ Cardinality(disp) <= 1 /\ Cardinality(exec) <= 1
            /\ \A e \in exec : \E d \in disp : d < e /\ cs[d].text = cs[e].text
            /\ \A d \in disp : (exec # {}) <=> ~CommandFound(cs[d].text)
            /\ ~(exec # {} /\ \E k \in 1..Len(results) :
                                 results[k].stmt = i /\ results[k].kind = "special")
            /\ (\E k \in 1..Len(results) : results[k].stmt = i /\ results[k].kind = "sql")
                  => exec # {}

\* a batch is done in which one statement was a meta-command and another was
\* run as SQL
C13_Witness ==
    /\ rpc = "done"
    /\ \E j, k \in 1..Len(results) : results[j].kind = "special" /\ results[k].kind = "sql"
    /\ Len(effects.executed) = 1
    /\ Len(effects.dispatched) = 2

\* C14: the result of a statement run as SQL has rows and headers both
\* present, exactly when the cursor described columns, or both absent, when
\* it described none; its status is present and not empty.
C14_RowsAndHeadersTogether ==
    \A k \in 1..Len(results) :
        results[k].kind = "sql" =>
            /\ results[k].rows.present <=> results[k].headers
            /\ \E d \in 1..Len(effects.described) :
                  /\ effects.described[d].stmt = results[k].stmt
                  /\ effects.described[d].present <=> results[k].headers
            /\ ~results[k].rows.present => results[k].rows.n = 0
            /\ results[k].status.head.text \in {"Query OK", "row in set", "rows in set"}

\* a batch yielded a result with rows and headers and one with neither
C14_Witness ==
    \E j, k \in 1..Len(results) :
        /\ results[j].kind = "sql" /\ results[j].headers /\ results[j].rows.n = 0
        /\ results[k].kind = "sql" /\ ~results[k].headers

(***************************************************************************)
(* Properties of the Backend.                                              *)
(***************************************************************************)
\* the connections made for the Backend that are open
Live == {c \in ConnIds : sockets[c].state = "open"}

LiveBefore == {c \in ConnIds : last.before.sockets[c].state = "open"}

\* in the last call every close of a connection came after the new
\* connection was made
ClosedAfterCreated ==
    \A k \in 1..Len(last.events) :
        (last.op = "connect" /\ last.events[k].ev = "close") =>
            \E j \in 1..(k - 1) : last.events[j].ev = "open"

\* C15: after any connect() and close() calls, however they end, at most one
\* connection made for the Backend is open, and it is the handle; on a
\* reconnect the previous connection is closed after the new one is made.
C15_AtMostOneLiveConnection ==
    /\ Live \subseteq {conn}
    /\ conn # 0 => conn \in Live
    /\ ClosedAfterCreated

\* What does hold: the handle is an open connection, the previous one is
\* closed after the new one is made, and an open connection that is not the
\* handle is one of Redshift's on which set_isolation_level raised.
LiveButForFailedAutocommit ==
    /\ conn # 0 => conn \in Live
    /\ ClosedAfterCreated
    /\ \A c \in Live \ {conn} : backendKind = "redshift" /\ ~sockets[c].autocommit
    /\ backendKind = "athena" => Live \subseteq {conn}

\* C16: a connect() that fails while the Backend holds a connection leaves
\* that connection open and installed, and the active database as it was.
C16_FailedConnectKeepsHandle ==
    (last.op = "connect" /\ last.outcome # "ok" /\ last.before.conn # 0) =>
        /\ conn = last.before.conn
        /\ sockets[conn].state = "open"
        /\ sockets[conn] = last.before.sockets[conn]
        /\ database = last.before.database

\* a connect() to another database failed at the credentials, and one at the
\* driver, with a connection held
C16_Witness ==
    /\ last.op = "connect"
    /\ last.outcome \in {"auth_error", "connect_error"}
    /\ last.before.conn # 0
    /\ last.arg \notin {<<>>, database}

\* what a session can see of the Backend: the active database, the connection
\* it holds and how many connections are open
Observable(db, h, sk) ==
    [database |-> db,
     held |-> IF h = 0 THEN NoSocket ELSE sk[h],
     live |-> Cardinality({c \in ConnIds : sk[c].state = "open"})]

\* C17: a connect(d) that succeeds when d is the active database leaves d
\* active and the Backend with exactly one live connection; a second
\* connect(d) leaves the state the first one left.
C17_ConnectIdempotent ==
    /\ (last.op = "connect" /\ last.outcome = "ok" /\ last.arg = last.before.database) =>
          /\ database = last.arg
          /\ Live = {conn}
    /\ (last.op = "connect" /\ last.outcome = "ok" /\ last.again) =>
          Observable(database, conn, sockets)
            = Observable(last.before.database, last.before.conn, last.before.sockets)

\* What does hold of connect(d) on the active database d: d stays active,
\* the handle is a new open connection with the parameters of the one before
\* when that one was made by connect(d) too, and no more connections are
\* open than before unless none was held.
IdempotentButForLeaks ==
    /\ (last.op = "connect" /\ last.outcome = "ok" /\ last.arg = last.before.database) =>
          /\ database = last.arg
          /\ conn \in Live /\ conn \notin LiveBefore
          /\ Live \ {conn} = LiveBefore \ {last.before.conn}
    /\ (last.op = "connect" /\ last.outcome = "ok" /\ last.again) =>
          Observable(database, conn, sockets)
            = Observable(last.before.database, last.before.conn, last.before.sockets)

\* C18: close() closes the connection held and leaves no handle; on a
\* Backend without a handle it raises nothing, closes nothing and changes
\* nothing, so a second close() leaves what the first one left.
C18_CloseReleases ==
    last.op = "close" =>
        /\ conn = 0
        /\ last.outcome = "ok"
        /\ database = last.before.database
        /\ \A c \in ConnIds : c # last.before.conn => sockets[c] = last.before.sockets[c]
        /\ last.before.conn # 0 =>
              /\ last.before.sockets[last.before.conn].state = "open"
              /\ sockets[last.before.conn].state = "closed"
              /\ last.events = <<Event("close", last.before.conn)>>
        /\ last.before.conn = 0 => (last.events = <<>> /\ sockets = last.before.sockets)
        /\ last.again =>
              /\ last.before.conn = 0
              /\ Before = last.before

\* a close() made right after a close() that closed a connection
C18_Witness ==
    /\ last.op = "close"
    /\ last.again
    /\ conn = 0
    /\ \E c \in ConnIds : sockets[c].state = "closed"

\* a call that needs a cursor
NeedsCursor == {"databases", "tables", "table_columns"}

\* get_cursor() raises without a handle and else hands out a cursor of the
\* handle, the Backend staying as it was
GetCursorContract ==
    last.op = "get_cursor" =>
        /\ last.before.conn = 0 => (last.outcome = "not_connected" /\ last.result = <<>>)
        /\ last.before.conn # 0 => (last.outcome = "cursor" /\ last.result = <<conn>>)
        /\ Before = last.before

\* the C19 statement as first made: get_cursor() as above, and without a
\* handle run() and every discovery call fail
C19_AllFailWithoutConnection ==
    /\ GetCursorContract
    /\ (last.op \in NeedsCursor \cup {"run"} /\ last.before.conn = 0) =>
          last.outcome = "not_connected"

\* C19: get_cursor() raises not-connected exactly when the Backend holds no
\* connection and else returns a cursor of the connection held, changing
\* nothing; so after close() every discovery call, and run() on a text that
\* has a statement, fail with it until a connect() succeeds, while run() on
\* an empty text yields its sentinel without asking for a cursor.
C19_NotConnectedUntilConnect ==
    /\ GetCursorContract
    /\ last.op \in NeedsCursor =>
          /\ (last.outcome = "not_connected") <=> (last.before.conn = 0)
          /\ Before = last.before
    /\ last.op = "run" =>
          /\ (last.outcome = "not_connected")
                <=> (last.before.conn = 0 /\ Split(Strip(last.arg)) # <<>>)
          /\ Strip(last.arg) = <<>> => (last.outcome = "ok" /\ last.result = <<Sentinel>>)
          /\ last.outcome = "not_connected" => last.result = <<>>
          /\ Before = last.before

\* run() on a statement failed for want of a connection right after close()
C19_Witness ==
    /\ last.op = "run"
    /\ last.outcome = "not_connected"
    /\ last.arg = <<"a">>
    /\ sockets[1].state = "closed"
    /\ conn = 0

\* C20: databases() returns the first column of every row of the discovery
\* query, in the rows' order and as often as they come, and the empty list
\* for no rows.
C20_DatabasesFirstColumn ==
    (last.op = "databases" /\ last.outcome = "ok") =>
        /\ Len(last.result) = Len(last.rows)
        /\ \A k \in 1..Len(last.rows) : last.result[k] = Head(last.rows[k])
        /\ last.rows = <<>> => last.result = <<>>

\* databases() returned the same name twice, from two rows of two columns
C20_Witness ==
    /\ last.op = "databases"
    /\ last.outcome = "ok"
    /\ last.rows = <<<<"d2", "x">>, <<"d2", "x">>>>
    /\ last.result = <<"d2", "d2">>

\* C21: the Redshift tables() yields, for each (schema, relation) row of its
\* query and in the same order, one 1-tuple holding schema, '.', relation and
\* nothing else.
C21_QualifiedTables ==
    (backendKind = "redshift" /\ last.op = "tables" /\ last.outcome = "ok") =>
        /\ Len(last.result) = Len(last.rows)
        /\ \A k \in 1..Len(last.rows) :
              /\ Len(last.result[k]) = 1
              /\ last.result[k][1] = <<last.rows[k][1], ".", last.rows[k][2]>>

\* rows (public, a), (public, b) gave (public.a,), (public.b,)
C21_Witness ==
    /\ backendKind = "redshift"
    /\ last.op = "tables"
    /\ last.outcome = "ok"
    /\ last.rows = <<<<"public", "a">>, <<"public", "b">>>>
    /\ last.result = <<<<<<"public", ".", "a">>>>, <<<<"public", ".", "b">>>>>>

(***************************************************************************)
(* Properties of the status text.                                          *)
(***************************************************************************)
\* the number the decimals of a rendered number stand for, in hundredths
Hundredths(num) ==
    num.whole * 100
      + (IF Len(num.decimals) >= 1 THEN num.decimals[1] * 10 ELSE 0)
      + (IF Len(num.decimals) >= 2 THEN num.decimals[2] ELSE 0)

\* the unit a byte count is shown in: one step for every factor of 1024,
\* four steps at most
UnitIndex(n) ==
    LET top == IF \E i \in 1..Len(n) : n[i] # 0
               THEN CHOOSE i \in 1..Len(n) : n[i] # 0 /\ \A j \in (i + 1)..Len(n) : n[j] = 0
               ELSE 1
    IN  IF top - 1 < 4 THEN top - 1 ELSE 4

Abs(x) == IF x < 0 THEN 0 - x ELSE x

\* C22: a byte count is shown in the unit B, KB, MB, GB or TB that one
\* division by 1024 per step leads to, TB at most; the number shown has at
\* most two decimals, none of them a trailing zero and no point without a
\* decimal, and is the count in that unit to the nearest hundredth; 1023 is
\* '1023 B', 1024 is '1 KB', 1536 is '1.5 KB' and 2^40 is '1 TB'.
C22_HumanizedSize ==
    (app.fn = "_humanize_size" /\ app.done) =>
        LET n == app.args.num_bytes
            num == app.out.num
            k == UnitIndex(n)
            q == Hundredths(num) - 100 * Value(SubSeq(n, k + 1, Len(n)))
        IN  /\ app.out.unit = <<"B", "KB", "MB", "GB", "TB">>[k + 1]
            /\ Len(num.decimals) <= 2
            /\ num.decimals # <<>> => num.decimals[Len(num.decimals)] # 0
            /\ num.point <=> num.decimals # <<>>
            /\ k < 4 => num.whole <= 1024
            /\ k <= 2 => 2 * Abs(100 * Value(SubSeq(n, 1, k)) - q * 1024^k) <= 1024^k
            /\ k >= 3 => 2 * Abs(100 * (n[k] * 1024 + n[k - 1]) - q * 1024^2)
                           <= 1024^2 + 200
            /\ n = ByteCountOf(<<1023>>)
                 => app.out = [num |-> [whole |-> 1023, point |-> FALSE, decimals |-> <<>>],
                               unit |-> "B"]
            /\ n = ByteCountOf(<<0, 1>>)
                 => app.out = [num |-> [whole |-> 1, point |-> FALSE, decimals |-> <<>>],
                               unit |-> "KB"]
            /\ n = ByteCountOf(<<512, 1>>)
                 => app.out = [num |-> [whole |-> 1, point |-> TRUE, decimals |-> <<5>>],
                               unit |-> "KB"]
            /\ n = ByteCountOf(<<0, 0, 0, 0, 1>>)
                 => app.out = [num |-> [whole |-> 1, point |-> FALSE, decimals |-> <<>>],
                               unit |-> "TB"]

\* 1536 bytes were rendered as '1.5 KB'
C22_Witness ==
    /\ app.fn = "_humanize_size"
    /\ app.done
    /\ app.args.num_bytes = ByteCountOf(<<512, 1>>)
    /\ app.out.unit = "KB"
    /\ app.out.num.decimals = <<5>>

\* the row text of a result, from its rows
RowText(rows) ==
    IF rows.present /\ rows.n > 1 THEN [n |-> rows.n, text |-> "rows in set"]
    ELSE IF rows.present /\ rows.n = 1 THEN [n |-> 1, text |-> "row in set"]
    ELSE [n |-> 0, text |-> "Query OK"]

\* '\nExecution time: 0 ms, Data scanned: 0 B, Approximate cost: $0.00'
QuietStatistics ==
    [millis |-> 0,
     scanned |-> [num |-> [whole |-> 0, point |-> FALSE, decimals |-> <<>>], unit |-> "B"],
     cost |-> [whole |-> 0, point |-> TRUE, decimals |-> <<0, 0>>]]

\* C26: the status of a statement run as SQL starts with '<N> rows in set'
\* for N > 1 rows, '1 row in set' for one row, and 'Query OK' for no row
\* (headers present, rows an empty sequence) and for a statement that is not
\* tabular; the Backend's statistics follow it, and with Redshift they are
\* the empty string.
C26_StatusText ==
    \A k \in 1..Len(results) :
        results[k].kind = "sql" =>
            /\ results[k].status.head = RowText(results[k].rows)
            /\ (results[k].headers /\ results[k].rows.n = 0) =>
                  results[k].rows.present /\ results[k].status.head.text = "Query OK"
            /\ ~results[k].headers => results[k].status.head.text = "Query OK"
            /\ results[k].status.tail =
                 IF backendKind = "redshift" THEN <<>> ELSE <<QuietStatistics>>

\* an Athena batch is done whose first statement returned two rows and whose
\* second returned none
C26_Witness ==
    /\ backendKind = "athena"
    /\ rpc = "done"
    /\ Len(results) = 2
    /\ results[1].status.head = [n |-> 2, text |-> "rows in set"]
    /\ results[2].headers /\ results[2].status.head.text = "Query OK"
    /\ results[1].status.tail # <<>>

(***************************************************************************)
(* Properties of the output location.                                      *)
(***************************************************************************)
\* the places in a trace of calls where the output location was published
Publications(cs) == {k \in 1..Len(cs) : cs[k].op = "special.set_output_location"}

\* C27: the output location is published exactly when get_result is given
\* a cursor that has one by a Backend that reports the capability: never
\* with Redshift, never for a statement the dispatcher handled; and what
\* get_result returns is the same whether or not it published.
C27_OutputLocationPublished ==
    last.op = "run" =>
        LET cs == last.events
        IN  /\ \A p \in Publications(cs) :
                  /\ backendKind = "athena"
                  /\ p > 1
                  /\ cs[p - 1].op = "get_result"
                  /\ cs[p - 1].text = <<"output_location">>
            /\ \A g \in 1..Len(cs) :
                  (cs[g].op = "get_result" /\ backendKind = "athena"
                     /\ cs[g].text = <<"output_location">>)
                    => (g + 1) \in Publications(cs)
            /\ backendKind = "redshift" => Publications(cs) = {}
            /\ (\A k \in 1..Len(cs) : cs[k].op # "cur.execute") => Publications(cs) = {}
            /\ \A k \in 1..Len(last.result) :
                  last.result[k].kind = "special" => Publications(cs) = {}
            /\ \A k \in 1..Len(cs) :
                  cs[k].op = "cur.execute" =>
                      \A o \in StatementOutcomes(cs[k].text) :
                          RunOne(1, cs[k].text, TRUE,
                                 [error |-> o.error, n |-> o.n, tabular |-> o.tabular,
                                  output_location |-> TRUE]).yielded
                            = RunOne(1, cs[k].text, TRUE,
                                     [error |-> o.error, n |-> o.n, tabular |-> o.tabular,
                                      output_location |-> FALSE]).yielded

\* an Athena statement was run as SQL, its location published and its
\* result yielded
C27_Witness ==
    /\ backendKind = "athena"
    /\ last.op = "run"
    /\ last.outcome = "ok"
    /\ Publications(last.events) # {}
    /\ Len(last.result) = 1
    /\ last.result[1].kind = "sql"

(***************************************************************************)
(* Properties of RedshiftBackend.connect and of the Athena database name.  *)
(***************************************************************************)
\* C28: the handle of the Redshift Backend is always a connection with
\* autocommit set, so is the connection of every cursor handed out; in a
\* connect() the connection is installed after autocommit was set on it, and
\* a connection on which setting it failed is not installed.
C28_AutocommitBeforeInstall ==
    backendKind = "redshift" =>
        /\ conn # 0 => sockets[conn].autocommit
        /\ (last.op = "get_cursor" /\ last.outcome = "cursor") =>
              sockets[last.result[1]].autocommit
        /\ last.op = "connect" =>
              /\ \A i \in 1..Len(last.events) :
                    last.events[i].ev = "install" =>
                        \E j \in 1..(i - 1) :
                            last.events[j] = Event("autocommit", last.events[i].id)
              /\ last.outcome = "isolation_error" =>
                    /\ conn = last.before.conn
                    /\ \A i \in 1..Len(last.events) :
                          /\ last.events[i].ev # "install"
                          /\ last.events[i].ev = "open" => conn # last.events[i].id

\* setting autocommit failed on a new connection while the Backend had a
\* handle: the handle is the old connection, the new one is not installed
C28_Witness ==
    /\ backendKind = "redshift"
    /\ last.op = "connect"
    /\ last.outcome = "isolation_error"
    /\ conn # 0
    /\ sockets[conn].autocommit
    /\ \E c \in ConnIds : c # conn /\ sockets[c].state = "open" /\ ~sockets[c].autocommit

\* the name has a separator
HasSeparator(name) == \E k \in 1..Len(name) : name[k] = "."

\* the text before the first separator of a name, and the text after it
BeforeFirst(name) ==
    LET k == CHOOSE j \in 1..Len(name) : name[j] = "." /\ \A h \in 1..(j - 1) : name[h] # "."
    IN  SubSeq(name, 1, k - 1)
AfterFirst(name) ==
    LET k == CHOOSE j \in 1..Len(name) : name[j] = "." /\ \A h \in 1..(j - 1) : name[h] # "."
    IN  SubSeq(name, k + 1, Len(name))

\* the catalog configured when the call is made
Configured ==
    IF app.fn = "__init__"
    THEN (IF app.args.catalog_name # <<>> THEN app.args.catalog_name ELSE <<"AwsDataCatalog">>)
    ELSE app.args.self_catalog_name

\* C29 as stated: at construction and in connect(), the text before the
\* first separator is the catalog of the connection and the whole remainder
\* is the active database; without a separator the catalog is the one
\* configured.
C29_SplitAtFirstSeparator ==
    (app.fn \in {"__init__", "connect"} /\ app.done) =>
        IF HasSeparator(app.args.database)
        THEN /\ app.out.catalog = BeforeFirst(app.args.database)
             /\ app.out.database = AfterFirst(app.args.database)
        ELSE app.out.catalog = Configured

\* C29, as the code has it: the same when the text before the first
\* separator and the remainder are both not empty. With nothing before the
\* separator the constructor connects to the default catalog and connect()
\* passes the empty catalog to the driver; with nothing after it the
\* constructor has no active database and connect() keeps the one it had.
\* The schema of the connection is the active database in every case.
C29_SplitAtFirstNonEmpty ==
    (app.fn \in {"__init__", "connect"} /\ app.done) =>
        LET arg == app.args.database
        IN  /\ app.out.schema = app.out.database
            /\ IF HasSeparator(arg)
               THEN /\ BeforeFirst(arg) # <<>> => app.out.catalog = BeforeFirst(arg)
                    /\ AfterFirst(arg) # <<>> => app.out.database = AfterFirst(arg)
                    /\ BeforeFirst(arg) = <<>> =>
                          app.out.catalog = IF app.fn = "__init__" THEN <<"AwsDataCatalog">>
                                            ELSE <<>>
                    /\ AfterFirst(arg) = <<>> =>
                          app.out.database = IF app.fn = "__init__" THEN <<>>
                                             ELSE app.args.self_database
               ELSE /\ app.out.catalog = Configured
                    /\ app.out.database = IF arg # <<>> \/ app.fn = "__init__" THEN arg
                                          ELSE app.args.self_database

\* connect('c.d.d') on a Backend configured with catalog k: the connection
\* is to catalog c and the active database is d.d
C29_Witness ==
    /\ app.fn = "connect"
    /\ app.done
    /\ app.args.database = <<"c", ".", "d", ".", "d">>
    /\ app.args.self_catalog_name = <<"k">>
    /\ app.out.catalog = <<"c">>
    /\ app.out.database = <<"d", ".", "d">>


(***************************************************************************)
(* The refresher between workers.                                          *)
(***************************************************************************)
\* the refresh() calls that were acknowledged "restarted" by worker w's
\* being alive
RequestsTo(w) == {i \in RestartRequests : acks[i].thread = w}

\* C33: whenever no worker is alive the pending-restart flag is clear, and
\* so a worker starts over no more often than refresh() was called since it
\* was spawned: its first pass is never cut short by an earlier call.
C33_FlagClearWhenIdle ==
    /\ (\A w \in WorkerIds : workers[w].pc \in {"none", "dead"}) => ~restart_refresh
    /\ \A w \in WorkerIds :
          workers[w].restarts <= Cardinality({i \in RequestsTo(w) : i > workers[w].call})

\* What does hold of the flag: it is set only by a refresh() call that found
\* a thread alive, and cleared only by a worker that read it set.
FlagSetOnlyByRefresh ==
    [][/\ (~restart_refresh /\ restart_refresh') =>
             (ipc.at = "set" /\ Len(acks') = Len(acks) + 1)
       /\ (restart_refresh /\ ~restart_refresh') =>
             \E w \in WorkerIds : workers[w].pc = "clear"]_vars

\* the callables of a callback list
Callables(cbs) == {cbs[k] : k \in 1..Len(cbs)}

\* the refresh() call a callable was handed to
CallOf(fn) == fn[1]

\* C34: a coalesced refresh() call leaves every thread's frame as it was;
\* the callback list of a worker is the list of the call that started it,
\* through all its passes and at delivery, so no callable of a coalesced
\* call is ever in a worker's list or invoked.
C34_CoalescedArgumentsDiscarded ==
    /\ [](\A w \in WorkerIds :
            IsAlive(w) =>
                /\ acks[workers[w].call].msg = AckStarted
                /\ acks[workers[w].call].thread = w
                /\ workers[w].pc # "init" =>
                      workers[w].callbacks = CallbackList(workers[w].args)
                /\ \A fn \in Callables(CallbackList(workers[w].args)) :
                      CallOf(fn) = workers[w].call
                /\ \A k \in 1..Len(workers[w].invoked) :
                      /\ CallOf(workers[w].invoked[k].fn) = workers[w].call
                      /\ CallOf(workers[w].invoked[k].fn) \notin RestartRequests)
    /\ [][(Len(acks') = Len(acks) + 1 /\ acks'[Len(acks')].msg = AckRestarted) =>
             \A w \in WorkerIds :
                 /\ workers'[w].args = workers[w].args
                 /\ workers'[w].callbacks = workers[w].callbacks
                 /\ workers'[w].completer = workers[w].completer
                 /\ workers'[w].invoked = workers[w].invoked]_vars

\* a worker that absorbed a coalesced call and started over has invoked the
\* first of the two callbacks of the call that started it
C34_Witness ==
    \E w \in WorkerIds :
        /\ workers[w].pc = "callbacks"
        /\ workers[w].restarts = 1
        /\ RequestsTo(w) # {}
        /\ Len(workers[w].callbacks) = 2
        /\ Len(workers[w].invoked) = 1

\* the worker ended by an exception
Failed(wk) == wk.pc = "dead" /\ wk.exit \in {"task_error", "callback_error"}

FlagCalls ==
    {k \in 1..Len(effects.calls) : effects.calls[k].op = "set_expanded_output"}

\* the flag is set: it was last given True
expanded_output ==
    /\ FlagCalls # {}
    /\ \A k \in FlagCalls :
          (\A j \in FlagCalls : j <= k) => effects.calls[k].text = <<"True">>

\* C39: run() calls set_expanded_output with True only; for a statement
\* ending with the marker the call comes before the cursor is asked for, so
\* the flag is set whether or not the cursor is had and whatever the
\* statement then does; and once set the flag is set for the rest of the
\* batch.
C39_ExpandedFlagOnlySet ==
    /\ [](/\ \A k \in FlagCalls : effects.calls[k].text = <<"True">>
          /\ \A i \in 1..Len(components) :
                (Reached(i) /\ TrailingMarker(components[i])) =>
                    /\ expanded_output
                    /\ \E k \in FlagCalls :
                          /\ effects.calls[k].stmt = i
                          /\ \A j \in 1..Len(effects.calls) :
                                (effects.calls[j].stmt = i /\ j # k) => j > k
                    /\ \E j \in 1..Len(effects.calls) :
                          effects.calls[j].stmt = i /\ effects.calls[j].op = "get_cursor")
    /\ [][expanded_output => expanded_output']_vars

\* the first statement ended with the marker and set the flag; the second,
\* without the marker, failed, and the flag is still set
C39_Witness ==
    /\ rpc = "failed"
    /\ pos = 2
    /\ TrailingMarker(components[1])
    /\ ~TrailingMarker(components[2])
    /\ effects.error = "execute"
    /\ expanded_output


(***************************************************************************)
(* The executor's copy of the active database, and the stored catalog.     *)
(***************************************************************************)
\* C37: whatever SQLExecute.connect calls were made and however each ended,
\* SQLExecute.database is the Backend's active database, which is the
\* database of the connection the Backend holds.
C37_ExecutorDatabaseInSync ==
    /\ executor_database = database
    /\ conn # 0 => sockets[conn].schema = executor_database

\* a connect that changed the active database was followed by one, to yet
\* another database, that failed
C37_Witness ==
    /\ last.op = "connect"
    /\ last.outcome # "ok"
    /\ last.arg # <<>>
    /\ last.arg # last.before.database
    /\ last.before.conn # 0
    /\ last.before.sockets[last.before.conn].schema = <<"d2">>
    /\ executor_database = <<"d2">>

\* the connection the last connect() made
Made == {c \in ConnIds : \E k \in 1..Len(last.events) :
                            last.events[k] = Event("open", c)}

\* the catalog of the connection held when the last call was made
CatalogBefore == last.before.sockets[last.before.conn].catalog

\* C38: connect() leaves the stored catalog name as the constructor set it;
\* the connection it makes is in the catalog named in a qualified argument,
\* and otherwise in the stored catalog, whatever catalog the connection
\* before it was in.
C38_CatalogFixedAtConstruction ==
    /\ [](backendKind = "athena" =>
            /\ catalog_name # <<>>
            /\ (last.op = "connect" /\ last.outcome = "ok") =>
                  \A c \in Made :
                      /\ c = conn
                      /\ sockets[c].catalog =
                            (IF Qualified(last.arg) THEN SplitFirst(last.arg)[1]
                             ELSE catalog_name))
    /\ [][catalog_name' = catalog_name]_vars

\* after a connection in another catalog, a connect with an unqualified
\* database is back in the catalog of the constructor
C38_Witness ==
    /\ backendKind = "athena"
    /\ last.op = "connect" /\ last.outcome = "ok"
    /\ last.arg = <<"d2">>
    /\ last.before.conn # 0
    /\ CatalogBefore = <<"c2">>
    /\ catalog_name = DefaultCatalog
    /\ sockets[conn].catalog = DefaultCatalog


(***************************************************************************)
(* The result-reuse settings of AWSConfig.                                 *)
(***************************************************************************)
\* a value was given
Given(v) == v.kind # "none"

\* what a given value says of the switch
Truth(v) ==
    \/ v.kind = "bool" /\ v.b
    \/ v.kind = "int" /\ v.n # 0
    \/ v.kind = "str" /\ v.s \in {"true", "True", "TRUE", "1", "yes", "On"}

\* a value was given and is an integer, or the text of one
Usable(v) == Given(v) /\ IntOf(v).ok

\* C32: the switch is what the explicit value says when one is given, else
\* what the profile's section of the config file says when it says anything,
\* else False, so that an explicit False stands against a 'true' in the
\* file; the minutes are the first of the explicit value and the file's value
\* that is given and is an integer, else 60.
C32_ResultReusePrecedence ==
    (app.fn = "AWSConfig" /\ app.done) =>
        LET e == app.args.result_reuse_enable
            m == app.args.result_reuse_minutes
            ce == CfgGet(app.args.config, "result_reuse_enable")
            cm == CfgGet(app.args.config, "result_reuse_minutes")
        IN  /\ app.out.result_reuse_enable =
                  (IF Given(e) THEN Truth(e) ELSE IF Given(ce) THEN Truth(ce) ELSE FALSE)
            /\ (e = BoolValue(FALSE) /\ ce = Word("true")) => ~app.out.result_reuse_enable
            /\ app.out.result_reuse_minutes =
                  (IF Usable(m) THEN IntOf(m).n
                   ELSE IF Usable(cm) THEN IntOf(cm).n ELSE 60)
            /\ (~Usable(m) /\ ~Usable(cm)) => app.out.result_reuse_minutes = 60

\* an explicit False was given with 'true' and '90' in the file: the switch
\* is off and the minutes are the file's
C32_Witness ==
    /\ app.fn = "AWSConfig" /\ app.done
    /\ app.args.result_reuse_enable = BoolValue(FALSE)
    /\ app.args.config = Section(Word("true"), Text(<<"9", "0">>))
    /\ app.out = [result_reuse_enable |-> FALSE, result_reuse_minutes |-> 90]

\* minutes given as a text that is no integer are passed over for the
\* file's value, read with the white space around it taken off
UnparsableMinutesSkipped ==
    (/\ app.fn = "AWSConfig" /\ app.done
     /\ app.args.result_reuse_minutes = Text(<<"x">>)
     /\ app.args.config.found
     /\ app.args.config.result_reuse_minutes = Text(<<" ", "9">>))
        => app.out.result_reuse_minutes = 9


(***************************************************************************)
(* The number shown by _humanize_size at the top of a unit.                *)
(***************************************************************************)
\* the byte count is below 1024 TB
BelowKiloTera(n) == n[6] = 0

\* C40: for a byte count below 1024 TB the number shown is below 1024: a
\* count that rounds to 1024.00 of a unit is shown in the next unit.
C40_RenderedBelowKilo ==
    (app.fn = "_humanize_size" /\ app.done /\ BelowKiloTera(app.args.num_bytes)) =>
        app.out.num.whole < 1024

\* What does hold: the number shown for such a count is 1024 at most, and it
\* is 1024, with no decimals, only for a count within half a hundredth of
\* the next unit.
RenderedAtMostKilo ==
    (app.fn = "_humanize_size" /\ app.done /\ BelowKiloTera(app.args.num_bytes)) =>
        LET n == app.args.num_bytes
            k == UnitIndex(n)
        IN  /\ app.out.num.whole <= 1024
            /\ app.out.num.whole = 1024 =>
                  /\ k >= 1
                  /\ app.out.num.decimals = <<>>
                  /\ n[k + 1] = 1023
                  /\ n[k] >= 1018


(***************************************************************************)
(* The worker and the interactive thread on one Backend.                   *)
(***************************************************************************)
\* the worker and a statement hold cursors of one connection, which is open
BothHoldCursor ==
    /\ session.worker.cur # 0
    /\ session.run.cur = session.worker.cur
    /\ sockets[session.worker.cur].state = "open"

\* C31: nothing keeps the worker and the interactive thread apart on the
\* Backend: whatever cursor the other holds, the interactive thread can ask
\* for a cursor, reconnect or close, and the worker can ask for its cursor,
\* and each can take its next step while the other is in the middle of a
\* call; both come to hold a cursor of the same connection.
C31_NotMutuallyExcluded ==
    /\ (session.run.pc = "idle" /\ conn # 0) =>
          (ENABLED StatementCursor /\ ENABLED Disconnect)
    /\ (session.run.pc = "idle" /\ Unused(sockets) # {}) => ENABLED Reconnect
    /\ session.run.pc \in {"execute", "result"} => ENABLED InteractiveStep
    /\ session.worker.pc = "cursor" => ENABLED TaskCursor
    /\ session.worker.pc \in {"execute", "rows"} => ENABLED TaskStep
    /\ session.worker.cur # 0 => session.worker.pc \in {"execute", "rows"}
    /\ session.run.cur # 0 => session.run.pc \in {"execute", "result"}

\* the worker is reading the rows of tables() while a statement, run on a
\* cursor of the same connection, has its result ready
C31_Witness ==
    /\ BothHoldCursor
    /\ session.worker.pc = "rows"
    /\ DiscoveryCalls[session.worker.task] = "tables"
    /\ session.worker.left > 0
    /\ session.run.pc = "result"

\* C36: the worker never reads from a cursor whose connection has been
\* closed: no connect() or close() of the interactive thread closes the
\* connection of a cursor the worker is reading.
C36_NoReadFromClosedConnection ==
    /\ ~session.worker.stale
    /\ (session.worker.pc = "rows" /\ session.worker.left > 0) =>
          ~Closed(session.worker.cur)

\* What does hold: the connection of the worker's cursor is closed only once
\* it is no longer the connection the Backend holds.
ClosedUnderWorkerOnlyByInteractive ==
    [][(~Closed(session.worker.cur) /\ Closed(session.worker.cur)') =>
          /\ session.worker' = session.worker
          /\ conn = session.worker.cur
          /\ conn' # conn]_vars

====
